---- MODULE Spec2Model ----
(***************************************************************************)
(* Model of the zetsubou Python SDK: the transport core                    *)
(* (ZetsubouClient._make_request with its retry loop and error             *)
(* classification), the job polling loop                                   *)
(* (JobsService.wait_for_completion), the data models, the response        *)
(* envelopes, the GraphQL service, the resource accessors (files, jobs,    *)
(* chat, tools), the client's lifecycle and command line, and one client   *)
(* shared by two threads.  Each layer has its own specification.           *)
(*                                                                         *)
(* Python strings built with f-strings are modelled as "texts": records    *)
(* [fmt, nums, args] holding the format, the numbers and the texts         *)
(* embedded in it, so that what a message embeds can be inspected.         *)
(***************************************************************************)
EXTENDS Integers, Sequences, FiniteSets, TLC

\* Largest retry budget a client is constructed with in the model.
MaxRetries == 2

\* Largest timeout and poll_interval (in clock ticks) wait_for_completion is
\* called with, longest time one fetch takes, longest time a sleep overruns.
MaxTimeout == 3
MaxPoll == 2
MaxFetchTime == 2
MaxOversleep == 1

\* Most fetches one call makes in the model; only calls that keep polling
\* without the clock advancing (poll_interval 0, fetches of no duration)
\* reach it.
MaxFetches == 4

\* The longest errors array of a GraphQL response.
MaxErrors == 3

\* The most arguments the command line has after the subcommand.
MaxArgs == 2

\* The longest files list tools.execute and tools.batch_execute are given.
MaxFiles == 2

\* Largest retry budget of a client that several threads share.
MaxSharedRetries == 1

----------------------------------------------------------------------------
(* Texts *)

Text(fmt, nums, args) == [fmt |-> fmt, nums |-> nums, args |-> args]

Lit(s) == Text(s, <<>>, <<>>)

\* Does text t embed the number n / the text u, directly or in a text it embeds?
RECURSIVE EmbedsNum(_, _)
EmbedsNum(t, n) ==
    \/ \E i \in DOMAIN t.nums : t.nums[i] = n
    \/ \E i \in DOMAIN t.args : EmbedsNum(t.args[i], n)

RECURSIVE EmbedsText(_, _)
EmbedsText(t, u) ==
    \/ t = u
    \/ \E i \in DOMAIN t.args : EmbedsText(t.args[i], u)

----------------------------------------------------------------------------
(* HTTP responses as the transport sees them *)

Statuses == {200, 201, 204, 400, 401, 403, 404, 429, 500, 599, 600}

\* A response body: JSON object (with or without a "message" key), any other
\* JSON value (array, string, number, null), or text that is not JSON
\* (possibly empty).
Bodies ==
    { [kind |-> "json_object", has_message |-> TRUE,  empty |-> FALSE],
      [kind |-> "json_object", has_message |-> FALSE, empty |-> FALSE],
      [kind |-> "json_other",  has_message |-> FALSE, empty |-> FALSE],
      [kind |-> "not_json",    has_message |-> FALSE, empty |-> FALSE],
      [kind |-> "not_json",    has_message |-> FALSE, empty |-> TRUE] }

\* Values of the Retry-After header, as character sequences: delta-seconds
\* ("6", "60", " 6", "06", "-6"), an HTTP-date or other non-number ("G"),
\* and the empty value.
RetryAfterValues ==
    { <<"6">>, <<"6", "0">>, <<"0", "6">>, <<" ", "6">>, <<"6", " ">>,
      <<"-", "6">>, <<"G">>, <<"6", "G">>, <<"6", " ", "0">>, <<"-">>, <<>> }

\* The header map of a response, reduced to Retry-After: <<>> when the
\* header is absent, <<v>> when it is present with value v.
RetryAfterHeaders == {<<>>} \cup { <<v>> : v \in RetryAfterValues }

\* The responses an attempt can get.  The header is read for status 429
\* only (client.py line 133), so the other statuses carry just two of its
\* values.
Responses ==
    { [status_code |-> s, body |-> b, retry_after |-> h] :
        s \in {429}, b \in Bodies, h \in RetryAfterHeaders }
    \cup
    { [status_code |-> s, body |-> b, retry_after |-> h] :
        s \in Statuses \ {429}, b \in Bodies, h \in {<<>>, << <<"6">> >>} }

NoResponse == [status_code |-> 0, body |-> [kind |-> "none", has_message |-> FALSE, empty |-> TRUE], retry_after |-> <<>>]

----------------------------------------------------------------------------
(* Python's int() on a header value *)

Digits == {"0", "6"}

DigitVal(c) == IF c = "6" THEN 6 ELSE 0

RECURSIVE LStrip(_)
LStrip(s) == IF s # <<>> /\ Head(s) = " " THEN LStrip(Tail(s)) ELSE s

RECURSIVE RStrip(_)
RStrip(s) ==
    IF s # <<>> /\ s[Len(s)] = " " THEN RStrip(SubSeq(s, 1, Len(s) - 1)) ELSE s

RECURSIVE DecimalValue(_)
DecimalValue(s) ==
    IF s = <<>> THEN 0
    ELSE 10 * DecimalValue(SubSeq(s, 1, Len(s) - 1)) + DigitVal(s[Len(s)])

AllDigits(s) == s # <<>> /\ \A i \in DOMAIN s : s[i] \in Digits

\* int(s) for a str s: surrounding whitespace is stripped, one sign is
\* allowed, the rest must be decimal digits.  <<n>> is the value, <<>> is
\* ValueError.
PyIntOfStr(s) ==
    LET t == RStrip(LStrip(s))
        neg == t # <<>> /\ Head(t) = "-"
        d == IF neg THEN Tail(t) ELSE t
    IN  IF AllDigits(d)
        THEN <<(IF neg THEN -1 ELSE 1) * DecimalValue(d)>>
        ELSE <<>>

----------------------------------------------------------------------------
(* Error detail: ZetsubouClient._parse_error_response *)

BodyMessage == Lit("<body.message>")
BodyText == Lit("<response.text>")

EmptyDict ==
    [type |-> "dict", origin |-> "empty", message |-> <<>>,
     code |-> <<>>, status_code |-> <<>>]

\* response.json(): the decoded value, or <<>> for the ValueError raised on
\* a body that is not JSON.
ResponseJson(resp) ==
    IF resp.body.kind = "not_json" THEN <<>>
    ELSE << [type |-> IF resp.body.kind = "json_object" THEN "dict" ELSE "other",
             origin |-> "body",
             message |-> IF resp.body.has_message THEN <<BodyMessage>> ELSE <<>>,
             code |-> <<>>, status_code |-> <<>>] >>

ParseErrorResponse(resp) ==
    IF ResponseJson(resp) # <<>> THEN ResponseJson(resp)[1]
    ELSE [type |-> "dict", origin |-> "synthesized",
          message |-> << IF resp.body.empty
                         THEN Text("HTTP {status_code}", <<resp.status_code>>, <<>>)
                         ELSE BodyText >>,
          code |-> << Text("HTTP_{status_code}", <<resp.status_code>>, <<>>) >>,
          status_code |-> <<resp.status_code>>]

----------------------------------------------------------------------------
(* Exceptions: zetsubou/exceptions.py *)

\* ZetsubouError.__init__ and RateLimitError.__init__: the message, the
\* detail (error_data or {}) and, for RateLimitError only, retry_after.
Exc(type, message, error_data, retry_after) ==
    [type |-> type, message |-> message,
     error_data |-> error_data, retry_after |-> retry_after]

NoExc == Exc("none", Lit(""), EmptyDict, <<>>)

DefaultRetryAfter == 60

\* The Retry-After header converted as line 133 does:
\* int(response.headers.get('Retry-After', 60)); <<>> is ValueError.
RetryAfterOf(resp) ==
    IF resp.retry_after = <<>> THEN <<DefaultRetryAfter>>
    ELSE PyIntOfStr(resp.retry_after[1])

----------------------------------------------------------------------------
(* ZetsubouClient._make_request: what one attempt does with its response *)

IsSuccess(s) == s = 200 \/ s = 201 \/ s = 204

IsServerError(s) == 500 <= s /\ s < 600

ShouldRetryMut(a, r) == a <= r

\* attempt < self.retry_attempts
ShouldRetry(a, r) == a < r

\* time.sleep(2 ** attempt)
Backoff(a) == 2 ^ a

\* The result of the body of the try block for one attempt:
\*   act = "return": the response is returned;
\*   act = "raise":  a ZetsubouError (exc) is raised;
\*   act = "retry":  the 5xx branch sleeps and continues;
\*   act = "error":  another exception (err is its str()) is raised,
\*                   AttributeError from .get on a detail that is no dict or
\*                   ValueError from int() on the Retry-After header.
Step(act, exc, err) == [act |-> act, exc |-> exc, err |-> err]

AttributeErrorText == Lit("object has no attribute 'get'")
ValueErrorText == Lit("invalid literal for int() with base 10")

\* error_data.get('message', default)
GetMessage(d, default) == IF d.message # <<>> THEN d.message[1] ELSE default

\* raise <type>(error_data.get('message', default), error_data)
RaiseTyped(type, default, d, retry_after) ==
    IF d.type # "dict" THEN Step("error", NoExc, AttributeErrorText)
    ELSE Step("raise", Exc(type, GetMessage(d, Lit(default)), d, retry_after), Lit(""))

Classify(resp, a, r) ==
    LET s == resp.status_code
        d == ParseErrorResponse(resp)
    IN  CASE IsSuccess(s) -> Step("return", NoExc, Lit(""))
          [] s = 400 -> RaiseTyped("ValidationError", "Validation error", d, <<>>)
          [] s = 401 -> RaiseTyped("AuthenticationError", "Authentication failed", d, <<>>)
          [] s = 404 -> RaiseTyped("NotFoundError", "Resource not found", d, <<>>)
          [] s = 429 ->
                IF RetryAfterOf(resp) = <<>>
                THEN Step("error", NoExc, ValueErrorText)
                ELSE RaiseTyped("RateLimitError", "Rate limit exceeded", d, RetryAfterOf(resp))
          [] IsServerError(s) ->
                IF ShouldRetry(a, r)
                THEN Step("retry", NoExc, Lit(""))
                ELSE RaiseTyped("ServerError", "Server error", d, <<>>)
          [] OTHER ->
                IF d.type # "dict" THEN Step("error", NoExc, AttributeErrorText)
                ELSE Step("raise",
                          Exc("ZetsubouError",
                              Text("Unexpected status code {status_code}: {message}",
                                   <<s>>, <<GetMessage(d, Lit("Unknown error"))>>),
                              d, <<>>),
                          Lit(""))

----------------------------------------------------------------------------
(* Decoded JSON values, as response.json() hands them to the records *)

\* A Python value: its type and its content as a sequence of tokens (a str is
\* the sequence of its parts, an int its numeral, a dict or list its
\* elements' names).
Val(type, repr) == [type |-> type, repr |-> repr]

\* The key is not in the dict.
Missing == Val("missing", <<>>)
PyNone == Val("NoneType", <<>>)
PyStr(tokens) == Val("str", tokens)
PyInt(numeral) == Val("int", <<numeral>>)
PyBool(b) == Val("bool", <<IF b THEN "True" ELSE "False">>)
PyDict(keys) == Val("dict", keys)
PyList(items) == Val("list", items)

\* What a from_dict call came to: kind is "built" (type is the record type,
\* fields its attributes), "raised" (type is the exception type, fields.args
\* its argument) or "none" (no call was made).
Result(kind, type, fields) == [kind |-> kind, type |-> type, fields |-> fields]
NoResult == Result("none", "none", [args |-> Missing])

\* What an accessor call came to: kind is "returned" (type names what was
\* returned, value is its content), "raised" (type is the exception type,
\* value its message) or "none" (no call was made).
Outcome(kind, type, value) == [kind |-> kind, type |-> type, value |-> value]
NoOutcome == Outcome("none", "none", Missing)

----------------------------------------------------------------------------
(* State *)

VARIABLES
    retry_attempts,   \* ZetsubouClient.retry_attempts, set by the constructor
    pc,               \* _make_request: "idle", "loop", "returned", "raised"
    attempt,          \* the loop variable of line 101
    last_exception,   \* <<>> is None, <<t>> the exception whose str() is t
    requests_sent,    \* calls of session.request made by this call, in order
    sleeps,           \* arguments of the time.sleep calls made, in order
    response,         \* the response of the attempt that ended the call
    raised,           \* the exception the call raised (NoExc if none)
    files,            \* whether the call was given files (attachments)
    headers,          \* the headers dict of lines 94-97
    wire_headers,     \* the headers each session.request call sent, in order
    jpc,              \* wait_for_completion: "idle", "check", "get", "sleep",
                      \*   "returned", "raised"
    timeout,          \* wait_for_completion's timeout argument
    poll_interval,    \* wait_for_completion's poll_interval argument
    now,              \* time.time()
    start_time,       \* start_time of line 86
    fetches,          \* number of self.get(job_id) calls made by the call
    fetch_raised,     \* what the last self.get(job_id) raised (NoExc if it
                      \*   returned a job)
    observed,         \* job.status of every job a fetch returned, in order
    job_error,        \* job.error of the last job fetched: <<>> is None
    job_sleeps,       \* number of time.sleep(poll_interval) calls made
    jraised,          \* what wait_for_completion raised (NoExc if none)
    rec_type,         \* the record class whose from_dict is called
    data,             \* the dict handed to from_dict
    built,            \* what the from_dict call came to
    env_body,         \* response.json() of a response the transport returned
    env_call,         \* the accessor called on it, <<>> if none was
    env_out,          \* what the accessor came to
    gql_data,         \* response.json() of the response to a GraphQL request
    gql_call,         \* the GraphQLService method called, <<>> if none was
    gql_out,          \* what that call came to
    acc,              \* the resource accessor called, "none" if none was
    acc_pc,           \* "idle", "calling" (at a call of the transport), "done"
    acc_log,          \* what each call of the transport the accessor made
                      \*   came to: NoExc if it returned a response, else the
                      \*   failure it raised
    acc_out,          \* what the accessor came to
    cli_pc,           \* main of cli.py: "start", "try", "handlers", "finally",
                      \*   "exited"
    cli_args,         \* what the command line gave
    cli_sdk,          \* what the SDK calls of the subcommand raised (NoExc
                      \*   if nothing)
    cli_pending,      \* what is propagating through main
    cli_printed,      \* the lines printed, in order
    cli_exit,         \* <<>> while the process runs, then <<exit status>>
    session,          \* the session of main's client: "none", "open", "closed"
    blk_pc,           \* a with ZetsubouClient(...) block: "before", "inside",
                      \*   "exiting", "left"
    blk_session,      \* the session of the block's client
    blk_raised,       \* what the body of the block raised (NoExc if nothing)
    blk_propagated,   \* what leaves the with statement (NoExc if nothing)
    svc_call,         \* the resource accessor called, "none" if none was
    svc_args,         \* the arguments it was called with
    svc_env,          \* what the accessor meets: what the server holds, what
                      \*   the transport answers
    svc_reqs,         \* the calls of the transport the accessor made, in order
    svc_out,          \* what the accessor came to
    config,           \* the client's api_key, base_url, timeout, retry_attempts
                      \*   when several threads share it
    session_headers,  \* session.headers of that client
    calls             \* the locals of each thread's call of _make_request

tvars == <<retry_attempts, pc, attempt, last_exception, requests_sent, sleeps,
           response, raised, files, headers, wire_headers>>

jvars == <<jpc, timeout, poll_interval, now, start_time, fetches,
           fetch_raised, observed, job_error, job_sleeps, jraised>>

mvars == <<rec_type, data, built>>

\* The variables of the layers above the transport and the polling loop.
evars == <<env_body, env_call, env_out>>

gvars == <<gql_data, gql_call, gql_out>>

avars == <<acc, acc_pc, acc_log, acc_out>>

cvars == <<cli_pc, cli_args, cli_sdk, cli_pending, cli_printed, cli_exit,
           session>>

bvars == <<blk_pc, blk_session, blk_raised, blk_propagated>>

rvars == <<svc_call, svc_args, svc_env, svc_reqs, svc_out>>

kvars == <<config, session_headers, calls>>

svars == <<mvars, evars, gvars, avars, cvars, bvars, rvars, kvars>>

vars == <<retry_attempts, pc, attempt, last_exception, requests_sent, sleeps,
          response, raised, jpc, timeout, poll_interval, now, start_time,
          fetches, fetch_raised, observed, job_error, job_sleeps, jraised,
          files, headers, wire_headers,
          rec_type, data, built, env_body, env_call, env_out,
          gql_data, gql_call, gql_out, acc, acc_pc, acc_log, acc_out,
          cli_pc, cli_args, cli_sdk, cli_pending, cli_printed, cli_exit,
          session, blk_pc, blk_session, blk_raised, blk_propagated,
          svc_call, svc_args, svc_env, svc_reqs, svc_out,
          config, session_headers, calls>>

\* What an attempt's call of session.request came to.
Sent(kind, status_code) == [kind |-> kind, status_code |-> status_code]

\* retry_attempts is any int the caller passes; -1 makes range() empty.
RetryBudgets == -1 .. MaxRetries

\* retry_attempts: int = 3
DefaultRetryAttempts == 3

JobsIdle ==
    /\ jpc = "idle"
    /\ timeout = 0
    /\ poll_interval = 0
    /\ now = 0
    /\ start_time = 0
    /\ fetches = 0
    /\ fetch_raised = NoExc
    /\ observed = <<>>
    /\ job_error = <<>>
    /\ job_sleeps = 0
    /\ jraised = NoExc

\* ZetsubouClient.__init__: the headers every request of the session gets.
SessionHeaders ==
    ("X-API-Key" :> "api_key")
    @@ ("User-Agent" :> "zetsubou-sdk-python/version")
    @@ ("Content-Type" :> "application/json")

\* headers = {}
NoHeaders == [k \in {} |-> ""]

\* k.lower()
Lower(k) ==
    CASE k = "X-API-Key" -> "x-api-key"
      [] k = "User-Agent" -> "user-agent"
      [] k = "Content-Type" -> "content-type"
      [] OTHER -> k

\* Lines 94-97: the headers argument of session.request.
RequestHeaders(f) ==
    IF f
    THEN [k \in {n \in DOMAIN SessionHeaders : Lower(n) # "content-type"} |->
             SessionHeaders[k]]
    ELSE NoHeaders

\* What requests does with headers=...: Session.prepare_request merges the
\* request's headers over the session's (merge_setting), so a session header
\* that the request does not name is sent as the session has it.
MergeSetting(request_setting, session_setting) ==
    [k \in DOMAIN session_setting \cup DOMAIN request_setting |->
        IF k \in DOMAIN request_setting THEN request_setting[k]
        ELSE session_setting[k]]

Multipart == "multipart/form-data; boundary=..."

\* What requests does with files=...: PreparedRequest.prepare_body encodes
\* the files as multipart and sets the multipart Content-Type only if the
\* merged headers hold no Content-Type.
PrepareBody(h, f) ==
    IF f /\ ~(\E k \in DOMAIN h : Lower(k) = "content-type")
    THEN h @@ ("Content-Type" :> Multipart)
    ELSE h

\* The headers of the request that session.request(headers=h, files=f) sends.
SentHeaders(h, f) == PrepareBody(MergeSetting(h, SessionHeaders), f)

TransportIdle ==
    /\ files = FALSE
    /\ headers = NoHeaders
    /\ wire_headers = <<>>
    /\ pc = "idle"
    /\ attempt = 0
    /\ last_exception = <<>>
    /\ requests_sent = <<>>
    /\ sleeps = <<>>
    /\ response = NoResponse
    /\ raised = NoExc

ModelsIdle ==
    /\ rec_type = "none"
    /\ data = [none |-> Missing]
    /\ built = NoResult

EnvelopeIdle ==
    /\ env_body = [success |-> Missing, error |-> Missing, payload |-> Missing]
    /\ env_call = <<>>
    /\ env_out = NoOutcome

\* The errors entry of a GraphQL response: kind is "missing" (no such key),
\* "null" or "list" (items are its elements, in response order).
Errors(kind, items) == [kind |-> kind, items |-> items]

GraphQLIdle ==
    /\ gql_data = [data |-> Missing, errors |-> Errors("missing", <<>>)]
    /\ gql_call = <<>>
    /\ gql_out = NoOutcome

\* What a call came to: kind is "returned", "raised" (exc is the exception)
\* or "none" (the call has not ended).
Ended(kind, exc) == [kind |-> kind, exc |-> exc]

AccessorsIdle ==
    /\ acc = "none"
    /\ acc_pc = "idle"
    /\ acc_log = <<>>
    /\ acc_out = Ended("none", NoExc)

\* What propagates through main: kind is "none", "exit" (SystemExit with
\* status) or "exception" (exc).
Pending(kind, status, exc) == [kind |-> kind, status |-> status, exc |-> exc]
NoPending == Pending("none", 0, NoExc)

NoArguments == [none |-> Missing]
NoEnvironment == [none |-> Missing]
NoConfig == [api_key |-> "", base_url |-> "", timeout |-> 0, retry_attempts |-> 0]

NoArgs == [api_key_arg |-> FALSE, api_key_env |-> FALSE, os_imported |-> FALSE,
           command |-> "none", unknown_args |-> 0, options |-> "absent"]

CliIdle ==
    /\ cli_pc = "start"
    /\ cli_args = NoArgs
    /\ cli_sdk = NoExc
    /\ cli_pending = NoPending
    /\ cli_printed = <<>>
    /\ cli_exit = <<>>
    /\ session = "none"

BlockIdle ==
    /\ blk_pc = "before"
    /\ blk_session = "none"
    /\ blk_raised = NoExc
    /\ blk_propagated = NoExc

ResourcesIdle ==
    /\ svc_call = "none"
    /\ svc_args = NoArguments
    /\ svc_env = NoEnvironment
    /\ svc_reqs = <<>>
    /\ svc_out = NoOutcome

\* No thread shares the client.
ThreadsIdle ==
    /\ config = NoConfig
    /\ session_headers = SessionHeaders
    /\ calls = <<>>

ServicesIdle ==
    /\ ModelsIdle
    /\ EnvelopeIdle
    /\ GraphQLIdle
    /\ AccessorsIdle
    /\ CliIdle
    /\ BlockIdle
    /\ ResourcesIdle
    /\ ThreadsIdle

Init ==
    /\ retry_attempts \in RetryBudgets
    /\ TransportIdle
    /\ JobsIdle
    /\ ServicesIdle

----------------------------------------------------------------------------
(* ZetsubouClient._make_request *)

\* Lines 91-101: the call starts its retry loop.
MakeRequest ==
    /\ pc = "idle"
    /\ pc' = "loop"
    /\ attempt' = 0
    /\ last_exception' = <<>>
    /\ \E f \in BOOLEAN :
         /\ files' = f
         /\ headers' = RequestHeaders(f)
    /\ UNCHANGED <<retry_attempts, requests_sent, sleeps, response, raised,
                   wire_headers>>
    /\ UNCHANGED <<jvars, svars>>

InLoop == pc = "loop" /\ attempt < retry_attempts + 1

\* time.sleep(2 ** attempt); continue
SleepAndContinue ==
    /\ sleeps' = Append(sleeps, Backoff(attempt))
    /\ attempt' = attempt + 1
    /\ pc' = "loop"
    /\ response' = NoResponse
    /\ raised' = NoExc

Raise(exc, resp) ==
    /\ pc' = "raised"
    /\ raised' = exc
    /\ response' = resp
    /\ UNCHANGED <<attempt, sleeps>>

\* Lines 162-167: an exception that is neither a ZetsubouError nor a
\* timeout or connection error.
OnUnexpected(err, resp) ==
    /\ last_exception' = <<err>>
    /\ IF ShouldRetry(attempt, retry_attempts)
       THEN SleepAndContinue
       ELSE Raise(Exc("ZetsubouError",
                      Text("Unexpected error: {e}", <<>>, <<err>>),
                      EmptyDict, <<>>), resp)

\* One attempt whose session.request returns a response (lines 103-151,
\* and the handlers of lines 159-167 for what the classification raises).
AttemptResponse ==
    /\ InLoop
    /\ \E resp \in Responses :
         LET st == Classify(resp, attempt, retry_attempts) IN
         /\ requests_sent' = Append(requests_sent, Sent("response", resp.status_code))
         /\ CASE st.act = "return" ->
                   /\ pc' = "returned"
                   /\ response' = resp
                   /\ UNCHANGED <<attempt, sleeps, raised, last_exception>>
              [] st.act = "raise" ->
                   /\ Raise(st.exc, resp)
                   /\ UNCHANGED last_exception
              [] st.act = "retry" ->
                   /\ SleepAndContinue
                   /\ UNCHANGED last_exception
              [] OTHER -> OnUnexpected(st.err, resp)
    /\ wire_headers' = Append(wire_headers, SentHeaders(headers, files))
    /\ UNCHANGED <<retry_attempts, files, headers>>
    /\ UNCHANGED <<jvars, svars>>

\* One attempt whose session.request raises requests' Timeout or
\* ConnectionError (lines 153-158).
AttemptNetworkError ==
    /\ InLoop
    /\ \E k \in {"Timeout", "ConnectionError"} :
         /\ requests_sent' = Append(requests_sent, Sent(k, 0))
         /\ last_exception' = <<Lit(k)>>
         /\ IF ShouldRetry(attempt, retry_attempts)
            THEN SleepAndContinue
            ELSE Raise(Exc("ZetsubouError",
                           Text("Request failed after {retry_attempts} retries: {e}",
                                <<retry_attempts>>, <<Lit(k)>>),
                           EmptyDict, <<>>), NoResponse)
    /\ wire_headers' = Append(wire_headers, SentHeaders(headers, files))
    /\ UNCHANGED <<retry_attempts, files, headers>>
    /\ UNCHANGED <<jvars, svars>>

\* One attempt whose session.request raises any other exception
\* (lines 162-167).
AttemptUnexpectedError ==
    /\ InLoop
    /\ requests_sent' = Append(requests_sent, Sent("Exception", 0))
    /\ OnUnexpected(Lit("Exception"), NoResponse)
    /\ wire_headers' = Append(wire_headers, SentHeaders(headers, files))
    /\ UNCHANGED <<retry_attempts, files, headers>>
    /\ UNCHANGED <<jvars, svars>>

Interrupt == Exc("KeyboardInterrupt", Lit(""), EmptyDict, <<>>)

\* The clause that takes an exception raised in the try block of lines
\* 102-151: "network" (lines 153-158), "unexpected" (except Exception,
\* lines 162-167) or "none".  KeyboardInterrupt and SystemExit derive from
\* BaseException, not from Exception.
HandlerOfAny(type) ==
    IF type \in {"Timeout", "ConnectionError"} THEN "network" ELSE "unexpected"

HandlerOf(type) ==
    CASE type \in {"Timeout", "ConnectionError"} -> "network"
      [] type \in {"KeyboardInterrupt", "SystemExit"} -> "none"
      [] OTHER -> "unexpected"

\* One attempt during which the user interrupts the process: session.request
\* raises KeyboardInterrupt, which no except clause of the loop takes.
AttemptInterrupted ==
    /\ InLoop
    /\ requests_sent' = Append(requests_sent, Sent(Interrupt.type, 0))
    /\ IF HandlerOf(Interrupt.type) = "none"
       THEN /\ Raise(Interrupt, NoResponse)
            /\ UNCHANGED last_exception
       ELSE OnUnexpected(Lit(Interrupt.type), NoResponse)
    /\ wire_headers' = Append(wire_headers, SentHeaders(headers, files))
    /\ UNCHANGED <<retry_attempts, files, headers>>
    /\ UNCHANGED <<jvars, svars>>

\* Line 170: the loop ran out without returning or raising.
LoopExhausted ==
    /\ pc = "loop"
    /\ ~(attempt < retry_attempts + 1)
    /\ pc' = "raised"
    /\ raised' = Exc("ZetsubouError",
                     Text("Request failed after {retry_attempts} retries: {e}",
                          <<retry_attempts>>,
                          <<IF last_exception = <<>> THEN Lit("None")
                            ELSE last_exception[1]>>),
                     EmptyDict, <<>>)
    /\ UNCHANGED <<retry_attempts, attempt, last_exception, requests_sent,
                   sleeps, response, files, headers, wire_headers>>
    /\ UNCHANGED <<jvars, svars>>

Next ==
    \/ MakeRequest
    \/ AttemptResponse
    \/ AttemptNetworkError
    \/ AttemptUnexpectedError
    \/ AttemptInterrupted
    \/ LoopExhausted

Spec == Init /\ [][Next]_vars

----------------------------------------------------------------------------
(* Properties of the transport *)

Done == pc \in {"returned", "raised"}

IsResponse(x) == x.kind = "response"

IsNetworkFailure(x) == x.kind \in {"Timeout", "ConnectionError"}

Is5xx(x) == IsResponse(x) /\ 500 <= x.status_code /\ x.status_code <= 599

\* The failure type the documentation gives for an error status.
ExpectedFailure(s) ==
    CASE s = 400 -> "ValidationError"
      [] s = 401 -> "AuthenticationError"
      [] s = 404 -> "NotFoundError"
      [] s = 429 -> "RateLimitError"
      [] 500 <= s /\ s <= 599 -> "ServerError"
      [] OTHER -> "ZetsubouError"

\* The sleeps of n backoffs: 2^0, 2^1, ..., 2^(n-1).
ExpectedBackoff(n) == [i \in 1 .. n |-> 2 ^ (i - 1)]

AllSent(P(_)) ==
    requests_sent # <<>> /\ \A i \in DOMAIN requests_sent : P(requests_sent[i])

\* C1: a response with status 400, 401, 404 or 429, whatever its body and
\* headers, ends the call at once: it is the only request of its attempt
\* sequence to follow (no request and no backoff sleep after it) and the
\* call raises the failure typed for that status.
C1_TypedFailureWithoutRetry ==
    \A i \in DOMAIN requests_sent :
        (IsResponse(requests_sent[i])
         /\ requests_sent[i].status_code \in {400, 401, 404, 429})
        => /\ pc = "raised"
           /\ i = Len(requests_sent)
           /\ Len(sleeps) = i - 1
           /\ raised.type = ExpectedFailure(requests_sent[i].status_code)

\* C2: when every attempt of a finished call got a 5xx response, the call
\* sent retry_attempts + 1 requests, slept 2^0, ..., 2^(retry_attempts-1)
\* between them (nothing after the last) and raised ServerError carrying the
\* detail parsed from the last response.
C2_ServerErrorAfterBudget ==
    (Done /\ AllSent(Is5xx))
    => /\ Len(requests_sent) = retry_attempts + 1
       /\ sleeps = ExpectedBackoff(retry_attempts)
       /\ pc = "raised"
       /\ raised.type = "ServerError"
       /\ raised.error_data = ParseErrorResponse(response)

\* C3: a 429 response raises RateLimitError whose retry_after is the value
\* of the Retry-After header when the header is present and 60 when absent.
C3_RetryAfterSurfaced ==
    \A i \in DOMAIN requests_sent :
        (IsResponse(requests_sent[i]) /\ requests_sent[i].status_code = 429)
        => /\ pc = "raised"
           /\ raised.type = "RateLimitError"
           /\ response.retry_after = <<>> => raised.retry_after = <<60>>
           /\ response.retry_after # <<>>
              => /\ raised.retry_after # <<>>
                 /\ raised.retry_after = PyIntOfStr(response.retry_after[1])

C5_StatusMappingTotal ==
    /\ pc = "returned"
       => /\ IsSuccess(response.status_code)
          /\ requests_sent[Len(requests_sent)]
               = Sent("response", response.status_code)
          /\ raised = NoExc
    /\ (pc = "raised" /\ raised.type # "KeyboardInterrupt")
       => raised.type \in {"ZetsubouError", "ValidationError",
                           "AuthenticationError", "NotFoundError",
                           "RateLimitError", "ServerError"}
    /\ \A i \in DOMAIN requests_sent :
         LET x == requests_sent[i] IN
         (IsResponse(x) /\ ~Is5xx(x)
          /\ x.status_code \notin {200, 201, 204, 400, 401, 404, 429})
         => /\ pc = "raised"
            /\ i = Len(requests_sent)
            /\ Len(sleeps) = i - 1
            /\ raised.type = "ZetsubouError"
            /\ EmbedsNum(raised.message, x.status_code)
            /\ raised.error_data = ParseErrorResponse(response)

\* C6: only transient failures are retried, and invisibly: no request and
\* no sleep follows a response whose status is not 5xx; and a call whose
\* attempts failed k <= retry_attempts times with 5xx or a network error and
\* then got 200, 201 or 204 returns that response, having sent k + 1
\* requests and slept k times.
C6_OnlyTransientRetried ==
    /\ \A i \in DOMAIN requests_sent :
         (IsResponse(requests_sent[i]) /\ ~Is5xx(requests_sent[i]))
         => i = Len(requests_sent) /\ Len(sleeps) = i - 1 /\ Done
    /\ \A k \in 0 .. Len(requests_sent) - 1 :
         ( /\ k + 1 = Len(requests_sent)
           /\ \A i \in 1 .. k :
                Is5xx(requests_sent[i]) \/ IsNetworkFailure(requests_sent[i])
           /\ IsResponse(requests_sent[k + 1])
           /\ requests_sent[k + 1].status_code \in {200, 201, 204} )
         => /\ pc = "returned"
            /\ k <= retry_attempts
            /\ response.status_code = requests_sent[k + 1].status_code
            /\ sleeps = ExpectedBackoff(k)

\* C7: every failure raised for a response with an error status carries
\* the parsed detail: the body decoded as JSON when it decodes, otherwise
\* the detail synthesized from the raw text (or "HTTP {status}"), the code
\* "HTTP_{status}" and the numeric status; and a body that does not decode
\* never keeps the failure typed for the status from being raised.
C7_FailureCarriesParsedDetail ==
    (pc = "raised" /\ response # NoResponse)
    => /\ raised.error_data = ParseErrorResponse(response)
       /\ response.body.kind # "not_json"
          => raised.error_data.origin = "body"
       /\ response.body.kind = "not_json"
          => /\ raised.error_data.message
                  = << IF response.body.empty
                       THEN Text("HTTP {status_code}", <<response.status_code>>, <<>>)
                       ELSE BodyText >>
             /\ raised.error_data.code
                  = << Text("HTTP_{status_code}", <<response.status_code>>, <<>>) >>
             /\ raised.error_data.status_code = <<response.status_code>>
       /\ (response.body.kind = "not_json"
           /\ (response.status_code = 429 => RetryAfterOf(response) # <<>>))
          => raised.type = ExpectedFailure(response.status_code)

----------------------------------------------------------------------------
(* JobsService.wait_for_completion *)

JobStatuses == {"pending", "running", "completed", "failed", "cancelled"}

\* job.error: None or the server's error string.
JobErrors == {<<>>, <<Lit("<job.error>")>>}

\* str(job.error) as the f-string of line 94 embeds it.
StrOfError(e) == IF e = <<>> THEN Lit("None") ELSE e[1]

\* Failures the transport raises out of self.get (client.get).
TransportFailures ==
    { Exc(t, Lit("<transport failure>"), EmptyDict, <<>>) :
        t \in {"NotFoundError", "ServerError", "ZetsubouError"} }

\* Exceptions JobsService.get raises on a response the transport returned:
\* response.json() on a body that is not JSON (ValueError), data['job'] or
\* Job.from_dict on a missing key (KeyError).
ParseFailures ==
    { Exc(t, Lit("<parse failure>"), EmptyDict, <<>>) :
        t \in {"KeyError", "ValueError"} }

\* Everything self.get(job_id) can raise.
FetchFailures == TransportFailures \cup ParseFailures

PropagateWrapped(f) ==
    Exc("ZetsubouError", Text("Job {job_id} failed: {e}", <<>>, <<f.message>>),
        EmptyDict, <<>>)

\* Line 89 is in no try block: what self.get raises leaves
\* wait_for_completion as it is.
Propagate(f) == f

LoopContinuesLe(elapsed, t) == elapsed <= t

LoopContinuesMut(elapsed, t) == elapsed + 1 < t

\* Line 88: time.time() - start_time < timeout
LoopContinues(elapsed, t) == elapsed < t

OnStatusNoReturn(status) ==
    CASE status = "failed" -> "raise_failed"
      [] status = "cancelled" -> "raise_cancelled"
      [] OTHER -> "sleep"

OnStatusNoCancel(status) ==
    CASE status = "completed" -> "return"
      [] status = "failed" -> "raise_failed"
      [] OTHER -> "sleep"

\* Lines 91-98: what the loop does with the status of the fetched job.
OnStatus(status) ==
    CASE status = "completed" -> "return"
      [] status = "failed" -> "raise_failed"
      [] status = "cancelled" -> "raise_cancelled"
      [] OTHER -> "sleep"

\* Lines 84-86: the call reads the clock once and enters the loop.
WaitForCompletion ==
    /\ jpc = "idle"
    /\ \E t \in 0 .. MaxTimeout, p \in 0 .. MaxPoll :
         /\ timeout' = t
         /\ poll_interval' = p
    /\ start_time' = now
    /\ jpc' = "check"
    /\ UNCHANGED <<now, fetches, fetch_raised, observed, job_error, job_sleeps,
                   jraised>>
    /\ UNCHANGED <<tvars, svars>>

\* Lines 88 and 100: the loop condition, and the timeout failure when it
\* is false.
LoopCheck ==
    /\ jpc = "check"
    /\ IF LoopContinues(now - start_time, timeout)
       THEN /\ jpc' = "get"
            /\ UNCHANGED jraised
       ELSE /\ jpc' = "raised"
            /\ jraised' = Exc("ZetsubouError",
                              Text("Job {job_id} timed out after {timeout} seconds",
                                   <<timeout>>, <<>>),
                              EmptyDict, <<>>)
    /\ UNCHANGED <<timeout, poll_interval, now, start_time, fetches,
                   fetch_raised, observed, job_error, job_sleeps>>
    /\ UNCHANGED <<tvars, svars>>

\* Lines 89-96: a fetch that returns a job, and the branch on its status.
FetchJob ==
    /\ jpc = "get"
    /\ fetches < MaxFetches
    /\ \E d \in 0 .. MaxFetchTime, st \in JobStatuses, e \in JobErrors :
         /\ now' = now + d
         /\ fetches' = fetches + 1
         /\ observed' = Append(observed, st)
         /\ job_error' = e
         /\ CASE OnStatus(st) = "return" ->
                   /\ jpc' = "returned"
                   /\ UNCHANGED jraised
              [] OnStatus(st) = "raise_failed" ->
                   /\ jpc' = "raised"
                   /\ jraised' = Exc("ZetsubouError",
                                     Text("Job {job_id} failed: {job.error}",
                                          <<>>, <<StrOfError(e)>>),
                                     EmptyDict, <<>>)
              [] OnStatus(st) = "raise_cancelled" ->
                   /\ jpc' = "raised"
                   /\ jraised' = Exc("ZetsubouError",
                                     Lit("Job {job_id} was cancelled"),
                                     EmptyDict, <<>>)
              [] OTHER ->
                   /\ jpc' = "sleep"
                   /\ UNCHANGED jraised
    /\ fetch_raised' = NoExc
    /\ UNCHANGED <<timeout, poll_interval, start_time, job_sleeps>>
    /\ UNCHANGED <<tvars, svars>>

\* Line 89: a fetch that raises (the transport, or the parsing of its
\* response); the exception leaves wait_for_completion as it is.
FetchFails ==
    /\ jpc = "get"
    /\ fetches < MaxFetches
    /\ \E d \in 0 .. MaxFetchTime, f \in FetchFailures :
         /\ now' = now + d
         /\ fetch_raised' = f
         /\ jraised' = Propagate(f)
    /\ fetches' = fetches + 1
    /\ jpc' = "raised"
    /\ UNCHANGED <<timeout, poll_interval, start_time, observed, job_error,
                   job_sleeps>>
    /\ UNCHANGED <<tvars, svars>>

\* Line 98: time.sleep(poll_interval), which lasts at least poll_interval.
PollSleep ==
    /\ jpc = "sleep"
    /\ \E over \in 0 .. MaxOversleep : now' = now + poll_interval + over
    /\ job_sleeps' = job_sleeps + 1
    /\ jpc' = "check"
    /\ UNCHANGED <<timeout, poll_interval, start_time, fetches, fetch_raised,
                   observed, job_error, jraised>>
    /\ UNCHANGED <<tvars, svars>>

\* The polling loop runs on a client constructed with the default budget.
JobsInit ==
    /\ retry_attempts = DefaultRetryAttempts
    /\ TransportIdle
    /\ JobsIdle
    /\ ServicesIdle

JobsNext ==
    \/ WaitForCompletion
    \/ LoopCheck
    \/ FetchJob
    \/ FetchFails
    \/ PollSleep

JobsSpec == JobsInit /\ [][JobsNext]_vars

\* Every step of the loop ends: a fetch is bounded by the transport's
\* request timeout and retry budget, a sleep by its duration.
JobsLiveSpec == JobsInit /\ [][JobsNext]_vars /\ WF_vars(JobsNext)

----------------------------------------------------------------------------
(* Properties of the polling loop *)

JDone == jpc \in {"returned", "raised"}

NonTerminal(st) == st \in {"pending", "running"}

IsTimeoutFailure(x) ==
    x.type = "ZetsubouError"
    /\ x.message.fmt = "Job {job_id} timed out after {timeout} seconds"

\* C8: when the fetches of a call returned a non-terminal status k times
\* and then completed, the call has returned, after exactly k sleeps and
\* exactly k + 1 fetches.
C8_ReturnsAfterKSleeps ==
    \A k \in 0 .. MaxFetches :
        ( /\ Len(observed) = k + 1
          /\ \A i \in 1 .. k : NonTerminal(observed[i])
          /\ observed[k + 1] = "completed" )
        => /\ jpc = "returned"
           /\ jraised = NoExc
           /\ job_sleeps = k
           /\ fetches = k + 1

C8_Witness ==
    /\ jpc = "returned"
    /\ observed = <<"pending", "pending", "completed">>
    /\ job_sleeps = 2
    /\ fetches = 3

\* C9: a call whose fetches never return a terminal status ends, and ends
\* by raising the timeout failure; whenever the timeout failure is raised,
\* the time elapsed since the call started is at least the timeout.  (That
\* the call ends is stated for poll_interval >= 1, where every sleep moves
\* the clock.)
C9_TimeoutAfterElapsed ==
    /\ [](IsTimeoutFailure(jraised)
          => /\ jpc = "raised"
             /\ now - start_time >= timeout)
    /\ []((JDone /\ fetches = Len(observed)
           /\ \A i \in DOMAIN observed : NonTerminal(observed[i]))
          => IsTimeoutFailure(jraised))
    /\ ((jpc = "check" /\ poll_interval >= 1) ~> JDone)

C9_Witness ==
    /\ jpc = "raised"
    /\ IsTimeoutFailure(jraised)
    /\ observed = <<"running", "running">>
    /\ timeout = 3
    /\ now - start_time > timeout

\* C10: the first fetch that observes failed makes the call raise a failure
\* whose message embeds job.error, the first that observes cancelled makes
\* it raise a failure noting the cancellation; that fetch is the last one,
\* and no sleep follows it.
C10_FailedOrCancelledRaisesAtOnce ==
    \A i \in DOMAIN observed :
        observed[i] \in {"failed", "cancelled"}
        => /\ i = Len(observed)
           /\ fetches = i
           /\ job_sleeps = i - 1
           /\ jpc = "raised"
           /\ jraised.type = "ZetsubouError"
           /\ observed[i] = "failed"
              => /\ jraised.message.fmt = "Job {job_id} failed: {job.error}"
                 /\ EmbedsText(jraised.message, StrOfError(job_error))
           /\ observed[i] = "cancelled"
              => jraised.message.fmt = "Job {job_id} was cancelled"

C10_Witness ==
    /\ jpc = "raised"
    /\ observed = <<"pending", "running", "failed">>
    /\ job_error # <<>>
    /\ job_sleeps = 2

C10_WitnessCancelled ==
    /\ jpc = "raised"
    /\ observed = <<"pending", "cancelled">>

LastObserved == observed[Len(observed)]

IsZetsubouFailure(x) ==
    x.type \in {"ZetsubouError", "ValidationError", "AuthenticationError",
                "NotFoundError", "RateLimitError", "ServerError"}

\* How a call that raised came to raise, by what the loop itself raises.
RaisedByLoop ==
    \/ /\ fetch_raised = NoExc
       /\ observed # <<>>
       /\ LastObserved = "failed"
       /\ jraised.message.fmt = "Job {job_id} failed: {job.error}"
    \/ /\ fetch_raised = NoExc
       /\ observed # <<>>
       /\ LastObserved = "cancelled"
       /\ jraised.message.fmt = "Job {job_id} was cancelled"
    \/ /\ fetch_raised = NoExc
       /\ IsTimeoutFailure(jraised)

ReturnsOnlyCompleted ==
    jpc = "returned"
    => /\ observed # <<>>
       /\ LastObserved = "completed"
       /\ fetch_raised = NoExc
       /\ jraised = NoExc
       /\ fetches = Len(observed)
       /\ job_sleeps = fetches - 1

C12_FetchesBeforeTimeout ==
    IsTimeoutFailure(jraised) => fetches >= 1

\* C12 (amended): for every timeout > 0 the job is fetched before the call
\* can time out, and a first fetch that observes completed makes the call
\* return that job after this one fetch, however long the fetch took; with
\* timeout 0 the call raises the timeout failure without fetching.
C12_FetchesBeforeTimeoutUnlessZero ==
    /\ (timeout >= 1 /\ IsTimeoutFailure(jraised)) => fetches >= 1
    /\ observed = <<"completed">>
       => /\ jpc = "returned"
          /\ timeout >= 1
          /\ fetches = 1
          /\ job_sleeps = 0
    /\ (timeout = 0 /\ jpc \notin {"idle", "check"})
       => /\ jpc = "raised"
          /\ IsTimeoutFailure(jraised)
          /\ fetches = 0

C12_Witness ==
    /\ jpc = "returned"
    /\ observed = <<"completed">>
    /\ timeout = 1
    /\ now - start_time > timeout

C12_WitnessZero ==
    /\ jpc = "raised"
    /\ timeout = 0
    /\ fetches = 0

----------------------------------------------------------------------------
(* Records: zetsubou/models.py and the NFT models of services/nft.py *)

\* Python's truth value of a decoded value.
Truthy(v) ==
    CASE v.type \in {"NoneType", "missing"} -> FALSE
      [] v.type \in {"str", "dict", "list"} -> v.repr # <<>>
      [] v.type = "int" -> v.repr # <<"0">>
      [] v.type = "bool" -> v.repr = <<"True">>
      [] OTHER -> TRUE

\* An exception raised while an argument of cls(...) is evaluated.
Raises(type, arg) == Val(type, <<arg>>)
ExcTypes == {"KeyError", "AttributeError", "ValueError"}
IsRaise(v) == v.type \in ExcTypes

\* data[k], with no default
GetNoDefault(d, k, default) ==
    IF d[k] = Missing THEN Raises("KeyError", k) ELSE d[k]

\* data.get(k, default)
Get(d, k, default) == IF d[k] = Missing THEN default ELSE d[k]

\* data[k]
Index(d, k) == IF d[k] = Missing THEN Raises("KeyError", k) ELSE d[k]

\* a or b
Or(a, b) == IF IsRaise(a) \/ Truthy(a) THEN a ELSE b

\* s.replace(old, new) on the parts of s
StrReplace(tokens, old, new) ==
    [i \in DOMAIN tokens |-> IF tokens[i] = old THEN new ELSE tokens[i]]

DateTimes == {"2024-01-01T00:00:00"}
Offsets == {"+00:00"}

\* datetime.fromisoformat: a date and time, then an optional UTC offset.
FromIsoFormat(tokens) ==
    IF /\ Len(tokens) \in {1, 2}
       /\ tokens[1] \in DateTimes
       /\ Len(tokens) = 2 => tokens[2] \in Offsets
    THEN Val("datetime", tokens)
    ELSE Raises("ValueError", "Invalid isoformat string")

\* datetime.fromisoformat(data[k].replace('Z', '+00:00'))
IsoOf(d, k) ==
    IF d[k] = Missing THEN Raises("KeyError", k)
    ELSE IF d[k].type # "str" THEN Raises("AttributeError", "replace")
    ELSE FromIsoFormat(StrReplace(d[k].repr, "Z", "+00:00"))

\* datetime.fromisoformat(...) if data.get(k) else None
IsoOrNone(d, k) == IF Truthy(Get(d, k, PyNone)) THEN IsoOf(d, k) ELSE PyNone

Field(name, value) == [name |-> name, value |-> value]

\* cls(a=..., b=..., ...): the arguments are evaluated in order; the first
\* one that raises ends the call.
Construct(type, fields) ==
    IF \E i \in DOMAIN fields : IsRaise(fields[i].value)
    THEN LET i == CHOOSE i \in DOMAIN fields :
                      /\ IsRaise(fields[i].value)
                      /\ \A j \in 1 .. i - 1 : ~IsRaise(fields[j].value)
         IN Result("raised", fields[i].value.type, [args |-> fields[i].value])
    ELSE Result("built", type,
                [n \in {fields[i].name : i \in DOMAIN fields} |->
                    fields[CHOOSE i \in DOMAIN fields : fields[i].name = n].value])

\* Job.from_dict
JobFromDict(d) ==
    Construct("Job", <<
        Field("id", Or(Get(d, "id", PyNone), Get(d, "job_id", PyNone))),
        Field("tool_id", Or(Get(d, "tool_id", PyNone), Get(d, "tool", PyNone))),
        Field("status", Index(d, "status")),
        Field("created_at", IsoOf(d, "created_at")),
        Field("updated_at", IsoOrNone(d, "updated_at")),
        Field("completed_at", IsoOrNone(d, "completed_at")),
        Field("progress", Get(d, "progress", PyInt("0"))),
        Field("error", Get(d, "error", PyNone)),
        Field("inputs", Or(Get(d, "inputs", PyNone),
                           Get(d, "input_files", PyList(<<>>)))),
        Field("outputs", Or(Get(d, "outputs", PyNone),
                            Get(d, "output_files", PyList(<<>>)))),
        Field("options", Get(d, "options", PyDict(<<>>))) >>)

\* VFSNode.from_dict
VFSNodeFromDict(d) ==
    Construct("VFSNode", <<
        Field("id", Index(d, "id")),
        Field("name", Index(d, "name")),
        Field("type", Index(d, "type")),
        Field("size_bytes", Index(d, "size_bytes")),
        Field("mime_type", Get(d, "mime_type", PyNone)),
        Field("created_at", IsoOf(d, "created_at")),
        Field("updated_at", IsoOf(d, "updated_at")),
        Field("parent_id", Get(d, "parent_id", PyNone)),
        Field("is_encrypted", Get(d, "is_encrypted", PyBool(FALSE))),
        Field("download_url", Get(d, "download_url", PyNone)) >>)

\* NFTProject.from_dict, which is NFTProject.__init__
NFTProjectFromDict(d) ==
    Construct("NFTProject", <<
        Field("id", Get(d, "id", PyNone)),
        Field("name", Get(d, "name", PyNone)),
        Field("description", Get(d, "description", PyNone)),
        Field("collection_config", Get(d, "collection_config", PyDict(<<>>))),
        Field("generation_config", Get(d, "generation_config", PyDict(<<>>))),
        Field("created_at", Get(d, "created_at", PyNone)),
        Field("updated_at", Get(d, "updated_at", PyNone)),
        Field("is_archived", Get(d, "is_archived", PyBool(FALSE))),
        Field("thumbnail_url", Get(d, "thumbnail_url", PyNone)),
        Field("layers", Get(d, "layers", PyList(<<>>))),
        Field("layer_count", Get(d, "layer_count", PyInt("0"))),
        Field("generations", Get(d, "generations", PyList(<<>>))),
        Field("generation_count", Get(d, "generation_count", PyInt("0"))) >>)

\* The responses the record classes are handed: every key is missing or
\* holds one of a few values of the kinds the server sends.
Timestamp == PyStr(<<"2024-01-01T00:00:00", "Z">>)

JobDicts ==
    [id : {Missing, PyNone, PyStr(<<"job-1">>)},
     job_id : {Missing, PyStr(<<"job-2">>)},
     tool_id : {Missing, PyStr(<<"tool-1">>)},
     tool : {Missing, PyStr(<<"tool-2">>)},
     status : {Missing, PyStr(<<"pending">>)},
     created_at : {Missing, PyNone, Timestamp, PyStr(<<"yesterday">>)},
     updated_at : {Missing, PyNone, Timestamp},
     completed_at : {Missing, PyStr(<<"2024-01-01T00:00:00", "+00:00">>)},
     progress : {Missing, PyNone, PyInt("50")},
     error : {Missing, PyStr(<<"boom">>)},
     inputs : {Missing, PyList(<<"a">>)},
     input_files : {Missing, PyList(<<"b">>)},
     outputs : {Missing},
     output_files : {Missing, PyList(<<"c">>)},
     options : {Missing, PyDict(<<"quality">>)}]

VFSNodeDicts ==
    [id : {Missing, PyStr(<<"node-1">>)},
     name : {Missing, PyStr(<<"a.txt">>)},
     type : {Missing, PyStr(<<"file">>)},
     size_bytes : {Missing, PyInt("10")},
     mime_type : {Missing, PyStr(<<"text/plain">>)},
     created_at : {Missing, Timestamp, PyStr(<<"yesterday">>)},
     updated_at : {Missing, Timestamp},
     parent_id : {Missing},
     is_encrypted : {Missing, PyBool(TRUE)},
     download_url : {Missing}]

NFTProjectDicts ==
    [id : {Missing, PyNone, PyStr(<<"project-1">>)},
     name : {Missing, PyStr(<<"apes">>)},
     description : {Missing},
     collection_config : {Missing, PyDict(<<"network">>)},
     generation_config : {Missing},
     created_at : {Missing, Timestamp},
     updated_at : {Missing},
     is_archived : {Missing, PyBool(TRUE)},
     thumbnail_url : {Missing},
     layers : {Missing, PyList(<<"background">>)},
     layer_count : {Missing, PyInt("3")},
     generations : {Missing},
     generation_count : {Missing}]

RecordTypes == {"Job", "VFSNode", "NFTProject"}

DictsOf(type) ==
    CASE type = "Job" -> JobDicts
      [] type = "VFSNode" -> VFSNodeDicts
      [] type = "NFTProject" -> NFTProjectDicts

FromDict(type) ==
    /\ rec_type = type
    /\ built = NoResult
    /\ built' = CASE type = "Job" -> JobFromDict(data)
                  [] type = "VFSNode" -> VFSNodeFromDict(data)
                  [] type = "NFTProject" -> NFTProjectFromDict(data)
    /\ UNCHANGED <<rec_type, data>>
    /\ UNCHANGED <<rvars, kvars, tvars, jvars, evars, gvars, avars, cvars, bvars>>

JobFromDictCall == FromDict("Job")
VFSNodeFromDictCall == FromDict("VFSNode")
NFTProjectInit == FromDict("NFTProject")

ModelsInit ==
    /\ retry_attempts = DefaultRetryAttempts
    /\ TransportIdle
    /\ JobsIdle
    /\ rec_type \in RecordTypes
    /\ data \in DictsOf(rec_type)
    /\ built = NoResult
    /\ EnvelopeIdle
    /\ GraphQLIdle
    /\ AccessorsIdle
    /\ CliIdle
    /\ BlockIdle
    /\ ResourcesIdle
    /\ ThreadsIdle

ModelsNext ==
    \/ JobFromDictCall
    \/ VFSNodeFromDictCall
    \/ NFTProjectInit

ModelsSpec == ModelsInit /\ [][ModelsNext]_vars

----------------------------------------------------------------------------
(* Properties of the records *)

FromDictCalled == built.kind # "none"

\* status and created_at, which Job.from_dict indexes, are there and
\* created_at is a timestamp fromisoformat accepts.
JobRequiredWellFormed ==
    /\ data.status # Missing
    /\ data.created_at.type = "str"
    /\ ~IsRaise(IsoOf(data, "created_at"))

\* C13: Job.from_dict on a response that lacks updated_at and completed_at
\* (and is well formed in the fields it indexes) builds a Job whose
\* updated_at and completed_at are None, and does not raise; a response
\* lacking progress gives progress = 0, one lacking options gives options = {}.
C13_JobDefaults ==
    (rec_type = "Job" /\ FromDictCalled /\ JobRequiredWellFormed) =>
        /\ built.kind = "built"
        /\ built.type = "Job"
        /\ data.updated_at = Missing => built.fields.updated_at = PyNone
        /\ data.completed_at = Missing => built.fields.completed_at = PyNone
        /\ data.progress = Missing => built.fields.progress = PyInt("0")
        /\ data.options = Missing => built.fields.options = PyDict(<<>>)

C13_Witness ==
    /\ rec_type = "Job"
    /\ data.updated_at = Missing
    /\ data.completed_at = Missing
    /\ data.progress = Missing
    /\ data.options = Missing
    /\ built.kind = "built"
    /\ built.fields.updated_at = PyNone
    /\ built.fields.progress = PyInt("0")

\* The response lacks the record's identity field, or its status field.
LacksIdentityOrStatus ==
    CASE rec_type = "Job" ->
            \/ data.id = Missing /\ data.job_id = Missing
            \/ data.status = Missing
      [] rec_type = "VFSNode" -> data.id = Missing
      [] rec_type = "NFTProject" -> data.id = Missing
      [] OTHER -> FALSE

\* C14: for every record type, from_dict on a response that lacks the
\* identity field or the status field raises and builds no record; Job's
\* identity is id or job_id.
C14_MissingIdentityOrStatusRaises ==
    (FromDictCalled /\ LacksIdentityOrStatus) => built.kind = "raised"

----------------------------------------------------------------------------
(* Accessors of the envelope surfaces: services/nft.py and
   ChatService.export_conversation *)

\* The decoded body of the response the server gives with HTTP success.
\* payload stands for the key the operation reads its result from
\* ('project', 'projects', 'layers', 'layer', 'generation', 'generations').
Payload == Val("json", <<"payload">>)

EnvelopeBodies ==
    [success : {Missing, PyNone, PyBool(TRUE), PyBool(FALSE)},
     error : {Missing, PyNone, PyStr(<<"quota exceeded">>)},
     payload : {Missing, Payload}]

NFTOperations ==
    {"list_projects", "get_project", "create_project", "update_project",
     "delete_project", "list_layers", "create_layer", "create_generation",
     "get_generation", "list_generations", "get_limits"}

\* The second argument of data.get('error', ...)
DefaultError(op) ==
    CASE op = "list_projects" -> "Failed to list projects"
      [] op = "get_project" -> "Failed to get project"
      [] op = "create_project" -> "Failed to create project"
      [] op = "update_project" -> "Failed to update project"
      [] op = "delete_project" -> "Failed to delete project"
      [] op = "list_layers" -> "Failed to list layers"
      [] op = "create_layer" -> "Failed to create layer"
      [] op = "create_generation" -> "Failed to create generation"
      [] op = "get_generation" -> "Failed to get generation"
      [] op = "list_generations" -> "Failed to list generations"
      [] op = "get_limits" -> "Failed to get limits"

\* The return statement of each operation.
NFTReturn(op, d) ==
    CASE op \in {"get_project", "create_project", "update_project"} ->
            IF d.payload = Missing
            THEN Outcome("raised", "KeyError", PyStr(<<"project">>))
            ELSE Outcome("returned", "NFTProject", d.payload)
      [] op \in {"create_generation", "get_generation"} ->
            IF d.payload = Missing
            THEN Outcome("raised", "KeyError", PyStr(<<"generation">>))
            ELSE Outcome("returned", "NFTGeneration", d.payload)
      [] op \in {"list_projects", "list_generations", "list_layers"} ->
            Outcome("returned", "list", Get(d, "payload", PyList(<<>>)))
      [] op = "create_layer" ->
            Outcome("returned", "dict", Get(d, "payload", PyDict(<<>>)))
      [] op = "delete_project" -> Outcome("returned", "bool", PyBool(TRUE))
      [] op = "get_limits" ->
            Outcome("returned", "dict", PyDict(<<"tier", "limits", "usage">>))

\* not data.get('success')
SuccessFlagFails(d) == ~Truthy(Get(d, "success", PyNone))

\* if not data.get('success'): raise ZetsubouError(data.get('error', '...'))
NFTOutcome(op, d) ==
    IF SuccessFlagFails(d)
    THEN Outcome("raised", "ZetsubouError",
                 Get(d, "error", PyStr(<<DefaultError(op)>>)))
    ELSE NFTReturn(op, d)

ExportFormats == {"json", "md", "html", "pdf", "xml"}

\* The keyword parameters of ZetsubouClient.get, besides endpoint.
ClientGetKeywords == {"params"}

\* self.client.get(endpoint, **keywords): Python raises TypeError for a
\* keyword the method does not have, before the method runs.
ClientGetRejects(keywords) == ~(keywords \subseteq ClientGetKeywords)

UnexpectedKeyword(k) ==
    Outcome("raised", "TypeError",
            PyStr(<<"get() got an unexpected keyword argument ", k>>))

\* export_conversation with no output_path: lines 154-158 call
\* self.client.get(..., params=params, stream=...); lines 160-179 return by
\* format.
ExportOutcome(format, d) ==
    IF ClientGetRejects({"params", "stream"})
    THEN UnexpectedKeyword("stream")
    ELSE CASE format = "json" -> Outcome("returned", "dict", d)
           [] format \in {"md", "html"} ->
                 Outcome("returned", "str", Val("text", <<"response.text">>))
           [] format = "pdf" ->
                 Outcome("returned", "bytes",
                         Val("content", <<"response.content">>))
           [] OTHER -> Outcome("raised", "ValueError",
                               PyStr(<<"Unsupported export format: ", format>>))

NFTCall(op) ==
    /\ env_call = <<>>
    /\ env_call' = <<op>>
    /\ env_out' = NFTOutcome(op, env_body)
    /\ UNCHANGED env_body
    /\ UNCHANGED <<rvars, kvars, tvars, jvars, mvars, gvars, avars, cvars, bvars>>

ListProjects == NFTCall("list_projects")
GetProject == NFTCall("get_project")
CreateProject == NFTCall("create_project")
UpdateProject == NFTCall("update_project")
DeleteProject == NFTCall("delete_project")
ListLayers == NFTCall("list_layers")
CreateLayer == NFTCall("create_layer")
CreateGeneration == NFTCall("create_generation")
GetGeneration == NFTCall("get_generation")
ListGenerations == NFTCall("list_generations")
GetLimits == NFTCall("get_limits")

ExportConversation ==
    /\ env_call = <<>>
    /\ \E format \in ExportFormats :
        /\ env_call' = <<"export_conversation", format>>
        /\ env_out' = ExportOutcome(format, env_body)
    /\ UNCHANGED env_body
    /\ UNCHANGED <<rvars, kvars, tvars, jvars, mvars, gvars, avars, cvars, bvars>>

EnvelopeInit ==
    /\ retry_attempts = DefaultRetryAttempts
    /\ TransportIdle
    /\ JobsIdle
    /\ ModelsIdle
    /\ env_body \in EnvelopeBodies
    /\ env_call = <<>>
    /\ env_out = NoOutcome
    /\ GraphQLIdle
    /\ AccessorsIdle
    /\ CliIdle
    /\ BlockIdle
    /\ ResourcesIdle
    /\ ThreadsIdle

EnvelopeNext ==
    \/ ListProjects
    \/ GetProject
    \/ CreateProject
    \/ UpdateProject
    \/ DeleteProject
    \/ ListLayers
    \/ CreateLayer
    \/ CreateGeneration
    \/ GetGeneration
    \/ ListGenerations
    \/ GetLimits
    \/ ExportConversation

EnvelopeSpec == EnvelopeInit /\ [][EnvelopeNext]_vars

\* An accessor was called on a body whose success flag is false.
CalledOnFailureEnvelope ==
    /\ env_call # <<>>
    /\ env_body.success = PyBool(FALSE)

\* The accessor raised a generic ZetsubouError carrying the embedded error
\* string (when the body embeds one).
RaisedEmbeddedError ==
    /\ env_out.kind = "raised"
    /\ env_out.type = "ZetsubouError"
    /\ env_body.error.type = "str" => env_out.value = env_body.error

\* C15: every accessor of an envelope surface (the NFT operations, chat
\* export), called on a body with success = false that the transport returned
\* as HTTP success, raises a generic ZetsubouError carrying the embedded error
\* string and returns nothing.
C15_EnvelopeFailureRaises == CalledOnFailureEnvelope => RaisedEmbeddedError

\* The NFT operations do as C15 says.
NFTEnvelopeFailureRaises ==
    (CalledOnFailureEnvelope /\ env_call[1] \in NFTOperations) =>
        RaisedEmbeddedError

----------------------------------------------------------------------------
(* GraphQLService: services/graphql.py *)

ErrorMessages == {Missing, PyNone, PyStr(<<"a">>), PyStr(<<"b">>)}

ErrorLists ==
    UNION {[1 .. n -> [message : ErrorMessages]] : n \in 0 .. MaxErrors}

GraphQLResponses ==
    [data : {Payload},
     errors : {Errors("missing", <<>>), Errors("null", <<>>)}
              \cup {Errors("list", l) : l \in ErrorLists}]

\* 'errors' in data and data['errors']
HasErrors(d) == d.errors.kind = "list" /\ d.errors.items # <<>>

\* e.get('message', 'Unknown error')
ErrorMessage(e) == Get(e, "message", PyStr(<<"Unknown error">>))

RECURSIVE JoinReversed(_, _)
JoinReversed(sep, strs) ==
    IF strs = <<>> THEN <<>>
    ELSE IF Len(strs) = 1 THEN strs[1].repr
    ELSE strs[Len(strs)].repr \o <<sep>>
         \o JoinReversed(sep, SubSeq(strs, 1, Len(strs) - 1))

\* sep.join(strs), on the parts of the strings
RECURSIVE Join(_, _)
Join(sep, strs) ==
    IF strs = <<>> THEN <<>>
    ELSE IF Len(strs) = 1 THEN strs[1].repr
    ELSE strs[1].repr \o <<sep>> \o Join(sep, Tail(strs))

\* Lines 50-54 of query.
QueryOutcome(d) ==
    IF HasErrors(d)
    THEN LET error_messages ==
                 [i \in DOMAIN d.errors.items |-> ErrorMessage(d.errors.items[i])]
         IN IF \E i \in DOMAIN error_messages : error_messages[i].type # "str"
            THEN Outcome("raised", "TypeError",
                         PyStr(<<"sequence item: expected str instance">>))
            ELSE Outcome("raised", "ZetsubouError",
                         PyStr(<<"GraphQL errors: ">>
                               \o Join("; ", error_messages)))
    ELSE Outcome("returned", "dict", d)

Query ==
    /\ gql_call = <<>>
    /\ gql_call' = <<"query">>
    /\ gql_out' = QueryOutcome(gql_data)
    /\ UNCHANGED gql_data
    /\ UNCHANGED <<rvars, kvars, tvars, jvars, mvars, evars, avars, cvars, bvars>>

\* return self.query(mutation, variables, operation_name)
Mutate ==
    /\ gql_call = <<>>
    /\ gql_call' = <<"mutate">>
    /\ gql_out' = QueryOutcome(gql_data)
    /\ UNCHANGED gql_data
    /\ UNCHANGED <<rvars, kvars, tvars, jvars, mvars, evars, avars, cvars, bvars>>

GraphQLInit ==
    /\ retry_attempts = DefaultRetryAttempts
    /\ TransportIdle
    /\ JobsIdle
    /\ ModelsIdle
    /\ EnvelopeIdle
    /\ gql_data \in GraphQLResponses
    /\ gql_call = <<>>
    /\ gql_out = NoOutcome
    /\ AccessorsIdle
    /\ CliIdle
    /\ BlockIdle
    /\ ResourcesIdle
    /\ ThreadsIdle

GraphQLNext == Query \/ Mutate

GraphQLSpec == GraphQLInit /\ [][GraphQLNext]_vars

\* The response's errors[i].message values are all there and all strings.
AllMessagesAreStrings ==
    \A i \in DOMAIN gql_data.errors.items :
        gql_data.errors.items[i].message.type = "str"

\* The message values separated by sep, in response order, after the parts
\* of prefix.
Separated(prefix, sep, values) ==
    prefix \o [k \in 1 .. 2 * Len(values) - 1 |->
                  IF k % 2 = 1 THEN values[(k + 1) \div 2] ELSE sep]

\* C16 as stated: with a non-empty errors array, query and mutate raise a
\* failure whose message is the errors[].message values joined by ';', in
\* response order; with no errors key or an empty array the response is
\* returned unchanged.
C16_MessageIsSemicolonJoin ==
    gql_call # <<>> =>
        IF HasErrors(gql_data)
        THEN AllMessagesAreStrings =>
                /\ gql_out.kind = "raised"
                /\ gql_out.type = "ZetsubouError"
                /\ gql_out.value.repr =
                       Separated(<<>>, ";",
                                 [i \in DOMAIN gql_data.errors.items |->
                                     gql_data.errors.items[i].message.repr[1]])
        ELSE gql_out = Outcome("returned", "dict", gql_data)

\* C16, amended: with a non-empty errors array whose elements each have a
\* string message or none, query and mutate raise a ZetsubouError whose
\* message is "GraphQL errors: " followed by the messages in response order,
\* separated by "; ", an element without message counting as "Unknown error";
\* with no errors key, a null or an empty array the response is returned
\* unchanged.
C16_MessageIsPrefixedJoin ==
    gql_call # <<>> =>
        IF gql_data.errors.kind = "list" /\ Len(gql_data.errors.items) > 0
        THEN (\A i \in DOMAIN gql_data.errors.items :
                  gql_data.errors.items[i].message.type \in {"str", "missing"})
             =>
                /\ gql_out.kind = "raised"
                /\ gql_out.type = "ZetsubouError"
                /\ gql_out.value.repr =
                       Separated(<<"GraphQL errors: ">>, "; ",
                                 [i \in DOMAIN gql_data.errors.items |->
                                     IF gql_data.errors.items[i].message = Missing
                                     THEN "Unknown error"
                                     ELSE gql_data.errors.items[i].message.repr[1]])
        ELSE gql_out = Outcome("returned", "dict", gql_data)

C16_Witness ==
    /\ gql_call = <<"mutate">>
    /\ gql_data.errors.kind = "list"
    /\ Len(gql_data.errors.items) = 3
    /\ gql_data.errors.items[1].message = PyStr(<<"b">>)
    /\ gql_data.errors.items[2].message = Missing
    /\ gql_data.errors.items[3].message = PyStr(<<"a">>)
    /\ gql_out.kind = "raised"
    /\ gql_out.value =
           PyStr(<<"GraphQL errors: ", "b", "; ", "Unknown error", "; ", "a">>)

C16_WitnessNoErrors ==
    /\ gql_call = <<"query">>
    /\ gql_data.errors = Errors("list", <<>>)
    /\ gql_out.kind = "returned"

----------------------------------------------------------------------------
(* Headers of the requests _make_request sends *)

\* Every request sent carries the X-API-Key header, and one without files
\* carries Content-Type application/json.
KeyAndJsonOnEveryAttempt ==
    /\ Len(wire_headers) = Len(requests_sent)
    /\ \A i \in DOMAIN wire_headers :
        /\ "X-API-Key" \in DOMAIN wire_headers[i]
        /\ wire_headers[i]["X-API-Key"] = SessionHeaders["X-API-Key"]
        /\ ~files => wire_headers[i]["Content-Type"] = "application/json"

\* C17: every request sent, on every attempt, carries X-API-Key; without
\* files it carries Content-Type application/json; with files it is not sent
\* with the fixed application/json but with the multipart content type the
\* HTTP layer sets.
C17_HeadersOfEveryRequest ==
    /\ KeyAndJsonOnEveryAttempt
    /\ \A i \in DOMAIN wire_headers :
        files => /\ "Content-Type" \in DOMAIN wire_headers[i]
                 /\ wire_headers[i]["Content-Type"] # "application/json"
                 /\ wire_headers[i]["Content-Type"] = Multipart

----------------------------------------------------------------------------
(* Resource accessors: the methods of services/*.py and
   ZetsubouClient.health_check *)

\* Accessors that end in one call of the transport and build their result
\* from its response.
OneCallAccessors ==
    {"client.health_check",
     "tools.list", "tools.get", "tools.execute", "tools.batch_execute",
     "tools.create_chain", "tools.list_chains", "tools.get_chain",
     "jobs.list", "jobs.get", "jobs.cancel", "jobs.retry", "jobs.delete",
     "jobs.get_progress",
     "vfs.list_nodes", "vfs.get_node", "vfs.upload_file", "vfs.create_folder",
     "vfs.update_node", "vfs.delete_node", "vfs.get_folder_contents",
     "vfs.search_files",
     "chat.list_conversations", "chat.create_conversation",
     "chat.get_conversation", "chat.delete_conversation", "chat.get_messages",
     "chat.send_message", "chat.get_available_models",
     "webhooks.list", "webhooks.create", "webhooks.get", "webhooks.update",
     "webhooks.delete", "webhooks.test", "webhooks.get_stats",
     "webhooks.get_available_events", "webhooks.create_job_webhook",
     "webhooks.create_file_webhook", "webhooks.create_storage_webhook",
     "account.get_account", "account.get_storage_quota",
     "account.get_usage_stats", "account.list_api_keys",
     "account.create_api_key", "account.delete_api_key",
     "account.get_tier_info", "account.get_available_tools",
     "account.get_rate_limits", "account.get_storage_usage_percentage",
     "account.is_storage_quota_warning", "account.get_largest_files",
     "account.get_storage_breakdown"}

\* self.get_available_events() and then self.create(...)
TwoCallAccessors == {"webhooks.create_all_events_webhook"}

\* create_conversation and then send_message(conversation.uuid, ...):
\* ChatConversation has no attribute uuid.
BrokenChainAccessors == {"chat.create_and_send_message"}

\* self.client.get(..., stream=...)
StreamAccessors ==
    {"vfs.download_file", "jobs.download_results", "chat.export_conversation"}

\* Accessors with a raise ZetsubouError(...) statement of their own.
EnvelopeAccessors == {"nft." \o op : op \in NFTOperations}
GraphQLAccessors == {"graphql.query", "graphql.mutate", "graphql.health_check"}
PollingAccessors == {"jobs.wait_for_completion"}
RaisingAccessors == EnvelopeAccessors \cup GraphQLAccessors \cup PollingAccessors

Accessors ==
    OneCallAccessors \cup TwoCallAccessors \cup BrokenChainAccessors
    \cup StreamAccessors \cup RaisingAccessors

\* The most calls of the transport the accessor makes.
CallsOf(a) ==
    CASE a \in PollingAccessors -> MaxFetches
      [] a \in TwoCallAccessors \cup BrokenChainAccessors -> 2
      [] OTHER -> 1

\* The failures _make_request raises.
TransportRaises ==
    { Exc(t, Lit("<transport failure>"), EmptyDict,
          IF t = "RateLimitError" THEN <<DefaultRetryAfter>> ELSE <<>>) :
        t \in {"ValidationError", "AuthenticationError", "NotFoundError",
               "RateLimitError", "ServerError", "ZetsubouError"} }

OwnFailure == Exc("ZetsubouError", Lit("<raised by the accessor>"), EmptyDict, <<>>)
AttributeFailure == Exc("AttributeError", Lit("uuid"), EmptyDict, <<>>)
KeywordFailure == Exc("TypeError", Lit("stream"), EmptyDict, <<>>)

\* What the accessor's own code can raise once a call of the transport
\* returned a response.
RaisesAfterResponse(a) ==
    CASE a \in RaisingAccessors -> ParseFailures \cup {OwnFailure}
      [] a \in BrokenChainAccessors -> ParseFailures \cup {AttributeFailure}
      [] OTHER -> ParseFailures

\* The accessor can return after its n-th call returned a response.
ReturnsAfter(a, n) ==
    CASE a \in PollingAccessors -> TRUE
      [] a \in BrokenChainAccessors -> FALSE
      [] OTHER -> n = CallsOf(a)

\* No accessor has a try block: what a call of the transport raises leaves
\* the accessor as it is.
Uncaught(f) == f

AccessorCalled ==
    /\ acc_pc = "idle"
    /\ \E a \in Accessors : acc' = a
    /\ acc_pc' = "calling"
    /\ UNCHANGED <<acc_log, acc_out>>
    /\ UNCHANGED <<rvars, kvars, tvars, jvars, mvars, evars, gvars, cvars, bvars>>

AccessorEnds(out) ==
    /\ acc_pc' = "done"
    /\ acc_out' = out
    /\ UNCHANGED acc

\* The call names a keyword the client method does not have.
KeywordRejected ==
    /\ acc_pc = "calling"
    /\ acc \in StreamAccessors
    /\ ClientGetRejects({"stream"})
    /\ AccessorEnds(Ended("raised", KeywordFailure))
    /\ UNCHANGED acc_log
    /\ UNCHANGED <<rvars, kvars, tvars, jvars, mvars, evars, gvars, cvars, bvars>>

CallGoesOut ==
    /\ acc_pc = "calling"
    /\ acc \in StreamAccessors => ~ClientGetRejects({"stream"})

\* The call of the transport raises.
TransportRaised ==
    /\ CallGoesOut
    /\ \E f \in TransportRaises :
        /\ acc_log' = Append(acc_log, f)
        /\ AccessorEnds(Ended("raised", Uncaught(f)))
    /\ UNCHANGED <<rvars, kvars, tvars, jvars, mvars, evars, gvars, cvars, bvars>>

\* The call of the transport returns a response; the accessor goes on to
\* its next call, raises while it handles the response, or returns.
TransportReturned ==
    /\ CallGoesOut
    /\ acc_log' = Append(acc_log, NoExc)
    /\ \/ /\ Len(acc_log) + 1 < CallsOf(acc)
          /\ acc \notin BrokenChainAccessors
          /\ UNCHANGED <<acc, acc_pc, acc_out>>
       \/ \E e \in RaisesAfterResponse(acc) : AccessorEnds(Ended("raised", e))
       \/ /\ ReturnsAfter(acc, Len(acc_log) + 1)
          /\ AccessorEnds(Ended("returned", NoExc))
    /\ UNCHANGED <<rvars, kvars, tvars, jvars, mvars, evars, gvars, cvars, bvars>>

\* wait_for_completion's loop condition fails: the timeout failure.
PollingTimedOut ==
    /\ acc_pc = "calling"
    /\ acc \in PollingAccessors
    /\ AccessorEnds(Ended("raised", OwnFailure))
    /\ UNCHANGED acc_log
    /\ UNCHANGED <<rvars, kvars, tvars, jvars, mvars, evars, gvars, cvars, bvars>>

AccessorsInit ==
    /\ retry_attempts = DefaultRetryAttempts
    /\ TransportIdle
    /\ JobsIdle
    /\ ServicesIdle

AccessorsNext ==
    \/ AccessorCalled
    \/ KeywordRejected
    \/ TransportRaised
    \/ TransportReturned
    \/ PollingTimedOut

AccessorsSpec == AccessorsInit /\ [][AccessorsNext]_vars

----------------------------------------------------------------------------
(* Properties of the accessors *)

\* A call of the transport that raised is the last call the accessor made,
\* and the accessor raised that very failure.
PropagatedUnchanged ==
    \A i \in DOMAIN acc_log :
        acc_log[i] # NoExc =>
            /\ i = Len(acc_log)
            /\ acc_pc = "done"
            /\ acc_out = Ended("raised", acc_log[i])

\* The accessor raised a failure of the SDK's kinds that no call of the
\* transport raised.
RaisedItsOwnFailure ==
    /\ acc_out.kind = "raised"
    /\ IsZetsubouFailure(acc_out.exc)
    /\ \A i \in DOMAIN acc_log : acc_log[i] = NoExc

\* C18: every accessor lets a failure the transport raised through unchanged
\* (type, message, detail) and makes no request after it; only
\* wait_for_completion, the GraphQL methods and the envelope-checking (NFT)
\* accessors raise a ZetsubouError of their own making.
C18_TransportFailuresPropagate ==
    /\ PropagatedUnchanged
    /\ RaisedItsOwnFailure => acc \in RaisingAccessors

C18_Witness ==
    /\ acc = "webhooks.create_all_events_webhook"
    /\ Len(acc_log) = 2
    /\ acc_log[1] = NoExc
    /\ acc_log[2].type = "AuthenticationError"
    /\ acc_out = Ended("raised", acc_log[2])

C18_WitnessFirstCall ==
    /\ acc = "webhooks.create_all_events_webhook"
    /\ Len(acc_log) = 1
    /\ acc_log[1].type = "ValidationError"
    /\ acc_pc = "done"

C18_WitnessOwn ==
    /\ acc = "nft.get_project"
    /\ RaisedItsOwnFailure

----------------------------------------------------------------------------
(* The command-line tool: zetsubou/cli.py *)

Commands ==
    {"tools list", "tools execute", "jobs list", "jobs get", "files list",
     "account info", "tools", "none"}

\* What parse_known_args and the environment give: whether --api-key and
\* ZETSUBOU_API_KEY are set, whether the module was run as __main__ (which
\* is where os is imported), the subcommand, the number of unknown_args and
\* the value after --options.
CommandLines ==
    { a \in [api_key_arg : BOOLEAN, api_key_env : BOOLEAN,
             os_imported : BOOLEAN, command : Commands,
             unknown_args : 0 .. MaxArgs,
             options : {"absent", "valid", "invalid"}] :
        a.options # "absent" => a.unknown_args >= 2 }

\* The subcommand functions with and without an except ZetsubouError clause.
GuardedCommands == {"tools execute", "jobs get", "account info"}
UnguardedCommands == {"tools list", "jobs list", "files list"}

\* print(f"Error: {e}")
ErrorLine(e) == Text("Error: {e}", <<>>, <<e.message>>)

\* What the SDK calls of a subcommand raise.
SdkOutcomes(command) ==
    {NoExc} \cup TransportRaises \cup ParseFailures
    \cup {OwnFailure, Exc("KeyboardInterrupt", Lit(""), EmptyDict, <<>>)}
    \cup (IF command = "tools execute" THEN {KeywordFailure} ELSE {})

\* The sys.exit(1) calls of main's dispatch: too few arguments, or
\* --options that is not JSON.
UsageError(a) ==
    \/ a.command = "tools execute" /\ a.unknown_args < 2
    \/ a.command = "tools execute" /\ a.options = "invalid"
    \/ a.command = "jobs get" /\ a.unknown_args < 1

\* What leaves a subcommand function whose SDK calls raised e, and what it
\* printed.
Handle(command, e) ==
    IF e = NoExc
    THEN [pending |-> NoPending, printed |-> <<Lit("<the subcommand's output>")>>]
    ELSE IF command \in GuardedCommands /\ IsZetsubouFailure(e)
    THEN [pending |-> Pending("exit", 1, NoExc), printed |-> <<ErrorLine(e)>>]
    ELSE [pending |-> Pending("exception", 0, e), printed |-> <<>>]

ExitStatusIgnoringExit(p) == IF p.kind = "exception" THEN 1 ELSE 0

\* The exit status of the process: sys.exit's argument, 1 for an exception
\* nothing caught, 0 when main returns.
ExitStatus(p) ==
    CASE p.kind = "exit" -> p.status
      [] p.kind = "exception" -> 1
      [] OTHER -> 0

NoClose(s) == s

\* client.close(): self.session.close()
Close(s) == "closed"

Exits(status, lines) ==
    /\ cli_pc' = "exited"
    /\ cli_exit' = <<status>>
    /\ cli_printed' = cli_printed \o lines
    /\ UNCHANGED session

\* Lines 244-257: the arguments, the API key, the client.
Main ==
    /\ cli_pc = "start"
    /\ \E a \in CommandLines, constructed \in BOOLEAN :
        /\ cli_args' = a
        /\ IF ~a.api_key_arg /\ ~a.os_imported
           THEN Exits(1, <<>>)
           ELSE IF ~(a.api_key_arg \/ a.api_key_env)
           THEN Exits(1, <<Lit("Error: API key required.")>>)
           ELSE IF ~constructed
           THEN Exits(1, <<Lit("Error initializing client: {e}")>>)
           ELSE /\ cli_pc' = "try"
                /\ session' = "open"
                /\ UNCHANGED <<cli_printed, cli_exit>>
    /\ UNCHANGED <<cli_sdk, cli_pending>>
    /\ UNCHANGED <<rvars, kvars, tvars, jvars, mvars, evars, gvars, avars, bvars>>

\* Lines 260-316, with the subcommand function called.
RunCommand ==
    /\ cli_pc = "try"
    /\ IF UsageError(cli_args)
       THEN /\ cli_pending' = Pending("exit", 1, NoExc)
            /\ cli_printed' = Append(cli_printed, Lit("Error: <usage>"))
            /\ UNCHANGED cli_sdk
       ELSE IF cli_args.command \in GuardedCommands \cup UnguardedCommands
       THEN \E e \in SdkOutcomes(cli_args.command) :
                /\ cli_sdk' = e
                /\ cli_pending' = Handle(cli_args.command, e).pending
                /\ cli_printed' =
                       cli_printed \o Handle(cli_args.command, e).printed
       ELSE /\ cli_pending' = NoPending
            /\ cli_printed' = IF cli_args.command = "none"
                              THEN Append(cli_printed, Lit("<help>"))
                              ELSE cli_printed
            /\ UNCHANGED cli_sdk
    /\ cli_pc' = "handlers"
    /\ UNCHANGED <<cli_args, cli_exit, session>>
    /\ UNCHANGED <<rvars, kvars, tvars, jvars, mvars, evars, gvars, avars, bvars>>

\* Lines 318-322: the except clauses of main.
MainHandlers ==
    /\ cli_pc = "handlers"
    /\ IF cli_pending.kind = "exception"
          /\ cli_pending.exc.type = "KeyboardInterrupt"
       THEN /\ cli_pending' = NoPending
            /\ cli_printed' =
                   Append(cli_printed, Lit("Operation cancelled by user"))
       ELSE IF cli_pending.kind = "exception"
               /\ IsZetsubouFailure(cli_pending.exc)
       THEN /\ cli_pending' = Pending("exit", 1, NoExc)
            /\ cli_printed' = Append(cli_printed, ErrorLine(cli_pending.exc))
       ELSE UNCHANGED <<cli_pending, cli_printed>>
    /\ cli_pc' = "finally"
    /\ UNCHANGED <<cli_args, cli_sdk, cli_exit, session>>
    /\ UNCHANGED <<rvars, kvars, tvars, jvars, mvars, evars, gvars, avars, bvars>>

\* Lines 323-324: finally: client.close(); then the process ends.
MainFinally ==
    /\ cli_pc = "finally"
    /\ session' = Close(session)
    /\ cli_pc' = "exited"
    /\ cli_exit' = <<ExitStatus(cli_pending)>>
    /\ UNCHANGED <<cli_args, cli_sdk, cli_pending, cli_printed>>
    /\ UNCHANGED <<rvars, kvars, tvars, jvars, mvars, evars, gvars, avars, bvars>>

----------------------------------------------------------------------------
(* with ZetsubouClient(...) as client: __init__, __enter__, __exit__ *)

\* What the body of the block raises.
BodyOutcomes ==
    {NoExc} \cup TransportRaises \cup ParseFailures
    \cup {Exc("KeyboardInterrupt", Lit(""), EmptyDict, <<>>)}

\* __exit__ has no return statement.
ExitReturns == PyNone

\* ZetsubouClient(...) opens the session; __enter__ returns self.
BlockEnter ==
    /\ blk_pc = "before"
    /\ blk_session' = "open"
    /\ blk_pc' = "inside"
    /\ UNCHANGED <<blk_raised, blk_propagated>>
    /\ UNCHANGED <<rvars, kvars, tvars, jvars, mvars, evars, gvars, avars, cvars>>

\* The body ends, normally or by an exception.
BlockBody ==
    /\ blk_pc = "inside"
    /\ \E e \in BodyOutcomes : blk_raised' = e
    /\ blk_pc' = "exiting"
    /\ UNCHANGED <<blk_session, blk_propagated>>
    /\ UNCHANGED <<rvars, kvars, tvars, jvars, mvars, evars, gvars, avars, cvars>>

\* __exit__: self.close(); the with statement swallows the exception only
\* if __exit__ returns a true value.
BlockExit ==
    /\ blk_pc = "exiting"
    /\ blk_session' = Close(blk_session)
    /\ blk_propagated' = IF Truthy(ExitReturns) THEN NoExc ELSE blk_raised
    /\ blk_pc' = "left"
    /\ UNCHANGED blk_raised
    /\ UNCHANGED <<rvars, kvars, tvars, jvars, mvars, evars, gvars, avars, cvars>>

LifecycleInit ==
    /\ retry_attempts = DefaultRetryAttempts
    /\ TransportIdle
    /\ JobsIdle
    /\ ServicesIdle

LifecycleNext ==
    \/ Main
    \/ RunCommand
    \/ MainHandlers
    \/ MainFinally
    \/ BlockEnter
    \/ BlockBody
    \/ BlockExit

LifecycleSpec == LifecycleInit /\ [][LifecycleNext]_vars

----------------------------------------------------------------------------
(* Properties of the session's lifecycle and of the command-line tool *)

\* main ended in lines 244-257, where no client exists yet: os is not
\* defined, no API key, or the constructor raised.
ExitedBeforeClient ==
    /\ cli_pc = "exited"
    /\ cli_pending = NoPending
    /\ cli_sdk = NoExc
    /\ cli_exit = <<1>>

\* C19: the session is released on every exit path: once a with block is
\* left its client's session is closed, whether the body raised or not, and
\* what the body raised leaves the with statement; once main has exited, the
\* session of a client it constructed is closed, whatever the exit status.
C19_SessionReleasedOnEveryPath ==
    /\ blk_pc = "left" =>
          /\ blk_session = "closed"
          /\ blk_propagated = blk_raised
    /\ cli_pc = "exited" => session \in {"none", "closed"}
    /\ session = "none" <=> cli_pc = "start" \/ ExitedBeforeClient

C19_Witness ==
    /\ blk_pc = "left"
    /\ blk_raised.type = "ServerError"
    /\ blk_propagated = blk_raised
    /\ blk_session = "closed"
    /\ cli_pc = "exited"
    /\ cli_args.command = "jobs list"
    /\ IsZetsubouFailure(cli_sdk)
    /\ cli_exit = <<1>>
    /\ session = "closed"

C19_WitnessUncaught ==
    /\ cli_pc = "exited"
    /\ cli_sdk.type = "KeyError"
    /\ session = "closed"

\* C20: whenever the SDK call of a subcommand raised a ZetsubouError, the
\* process has printed "Error: " and the message and exits with a status
\* that is not 0, for every subcommand.
C20_FailureExitsNonZero ==
    (cli_pc = "exited" /\ IsZetsubouFailure(cli_sdk)) =>
        /\ cli_exit # <<0>>
        /\ \E i \in DOMAIN cli_printed : cli_printed[i] = ErrorLine(cli_sdk)

C20_Witness ==
    /\ cli_pc = "exited"
    /\ cli_args.command = "tools execute"
    /\ cli_sdk = OwnFailure
    /\ cli_exit = <<1>>

C20_WitnessUnguarded ==
    /\ cli_pc = "exited"
    /\ cli_args.command = "files list"
    /\ cli_sdk.type = "AuthenticationError"
    /\ cli_exit = <<1>>

----------------------------------------------------------------------------
(* Resource accessors that build one or two calls of the transport:         *)
(* services/vfs.py, jobs.py, chat.py, webhooks.py, account.py, tools.py     *)

\* A call of the transport as the accessor makes it: the client method, the
\* endpoint, and what goes with it (query parameters, attachments).
Request(method, endpoint, payload) ==
    [method |-> method, endpoint |-> endpoint, payload |-> payload]

\* if v: params[k] = v
IfGivenNever(v) == Missing

IfGiven(v) == IF Truthy(v) THEN v ELSE Missing

\* The nodes a server holds, in listing order.  A parent_id of null, or no
\* parent_id key, is a node at the root.
ParentValues == {Missing, PyNone, PyStr(<<"folder-A">>), PyStr(<<"folder-B">>)}

NodeDict(id, type, parent) ==
    [id |-> PyStr(<<id>>), name |-> PyStr(<<"a.txt">>), type |-> PyStr(<<type>>),
     size_bytes |-> PyInt("10"), mime_type |-> Missing,
     created_at |-> Timestamp, updated_at |-> Timestamp,
     parent_id |-> parent, is_encrypted |-> Missing, download_url |-> Missing]

Stores ==
    { << NodeDict("node-1", "file", p1), NodeDict("node-2", "folder", p2),
         NodeDict("node-3", "file", p3) >> : p1, p2, p3 \in ParentValues }

\* GET /api/v2/vfs/nodes as a server answers it: the nodes whose parent_id
\* and type equal the query parameters that were sent, then the page that
\* offset and limit cut out.  Without a parent_id parameter a server lists
\* either every node or the root nodes (unfiltered says which).
ServerListing(store, params, unfiltered) ==
    LET Matches(n) ==
            /\ IF params.parent_id # Missing
               THEN n.parent_id = params.parent_id
               ELSE unfiltered = "roots" => n.parent_id \in {Missing, PyNone}
            /\ params.type # Missing => n.type = params.type
        found == SelectSeq(store, Matches)
    IN  SubSeq(found, params.offset + 1,
               IF params.offset + params.limit < Len(found)
               THEN params.offset + params.limit ELSE Len(found))

\* [cls.from_dict(x) for x in items]: the results in order, or the first
\* exception a from_dict raises.
ListOf(results) ==
    IF \E i \in DOMAIN results : results[i].kind = "raised"
    THEN LET i == CHOOSE i \in DOMAIN results :
                      /\ results[i].kind = "raised"
                      /\ \A j \in 1 .. i - 1 : results[j].kind # "raised"
         IN Outcome("raised", results[i].type, results[i].fields.args)
    ELSE Outcome("returned", "list", results)

ParentArguments ==
    {PyNone, PyStr(<<>>), PyStr(<<"folder-A">>), PyStr(<<"folder-B">>),
     PyStr(<<"folder-C">>)}

TypeArguments == {PyNone, PyStr(<<"file">>), PyStr(<<"folder">>)}

\* The resource accessors leave the transport, the polling loop and the
\* other layers alone.
ResourceFrame ==
    UNCHANGED <<retry_attempts, tvars, jvars, mvars, evars, gvars, avars,
                cvars, bvars, kvars>>

\* VFSService.list_nodes
ListNodes ==
    /\ svc_call = "none"
    /\ \E store \in Stores, parent_id \in ParentArguments,
          node_type \in TypeArguments, limit \in {1, 100}, offset \in {0, 1},
          unfiltered \in {"all", "roots"} :
         LET params == [limit |-> limit, offset |-> offset,
                        parent_id |-> IfGiven(parent_id),
                        type |-> IfGiven(node_type)]
             nodes == ServerListing(store, params, unfiltered)
         IN  /\ svc_call' = "list_nodes"
             /\ svc_args' = [parent_id |-> parent_id, node_type |-> node_type,
                             limit |-> limit, offset |-> offset]
             /\ svc_env' = [store |-> store, unfiltered |-> unfiltered,
                            nodes |-> nodes]
             /\ svc_reqs' = <<Request("get", "/api/v2/vfs/nodes", params)>>
             /\ svc_out' = ListOf([i \in DOMAIN nodes |-> VFSNodeFromDict(nodes[i])])
    /\ ResourceFrame

\* The content a download endpoint sends, in the chunks iter_content yields.
Contents == {<<>>, <<"chunk-1">>, <<"chunk-1", "chunk-2">>}

OutputPaths == {PyNone, PyStr(<<>>), PyStr(<<"out.zip">>)}

\* f'/api/v2/jobs/{job_id}/download', f'/api/v2/vfs/nodes/{node_id}/download'
DownloadEndpoint(call, id) ==
    IF call = "download_results"
    THEN <<"/api/v2/jobs/", id, "/download">>
    ELSE <<"/api/v2/vfs/nodes/", id, "/download">>

\* JobsService.download_results and VFSService.download_file, which differ
\* in the endpoint only: self.client.get(endpoint, stream=True), then the
\* content written chunk by chunk to output_path, or returned.
Download(call, id) ==
    /\ svc_call = "none"
    /\ svc_call' = call
    /\ \E output_path \in OutputPaths, content \in Contents :
         /\ svc_args' = [id |-> id, output_path |-> output_path]
         /\ IF ClientGetRejects({"stream"})
            THEN /\ svc_reqs' = <<>>
                 /\ svc_env' = [content |-> content, written |-> Missing]
                 /\ svc_out' = UnexpectedKeyword("stream")
            ELSE /\ svc_reqs' = <<Request("get", DownloadEndpoint(call, id),
                                          [stream |-> TRUE])>>
                 /\ IF Truthy(output_path)
                    THEN /\ svc_env' = [content |-> content,
                                        written |-> Val("file", content)]
                         /\ svc_out' = Outcome("returned", "str", output_path)
                    ELSE /\ svc_env' = [content |-> content, written |-> Missing]
                         /\ svc_out' = Outcome("returned", "bytes",
                                               Val("bytes", content))
    /\ ResourceFrame

DownloadResults == \E id \in {"job-1", "job-2"} : Download("download_results", id)

DownloadFile == \E id \in {"node-1", "node-2"} : Download("download_file", id)

\* What a call of the transport came to: kind is "response" (value is its
\* response.json()) or "raised" (value names the failure).
Answer(kind, value) == [kind |-> kind, value |-> value]

TransportFailureTypes == {"NotFoundError", "ServerError", "ZetsubouError"}

Failed(type) == Outcome("raised", type, PyStr(<<"<transport failure>">>))

\* ChatMessage.from_dict
ChatMessageFromDict(d) ==
    Construct("ChatMessage", <<
        Field("id", Index(d, "id")),
        Field("role", Index(d, "role")),
        Field("content", Index(d, "content")),
        Field("timestamp", IsoOf(d, "timestamp")) >>)

\* ChatConversation.from_dict; the responses of the model carry no
\* last_message, so last_message stays None.
ChatConversationFromDict(d) ==
    Construct("ChatConversation", <<
        Field("id", Index(d, "id")),
        Field("title", Index(d, "title")),
        Field("model", Index(d, "model")),
        Field("created_at", IsoOf(d, "created_at")),
        Field("updated_at", IsoOf(d, "updated_at")),
        Field("message_count", Index(d, "message_count")),
        Field("last_message", PyNone) >>)

\* obj.name on a record that was built
GetAttr(obj, name) ==
    IF name \in DOMAIN obj.fields THEN obj.fields[name]
    ELSE Raises("AttributeError", name)

\* result['conversation'] of the create response: the server may or may not
\* send a uuid next to the id.
ConversationDicts ==
    [id : {PyInt("1"), PyInt("2")},
     uuid : {Missing, PyStr(<<"conv-uuid-1">>)},
     title : {PyStr(<<"hello">>)},
     model : {PyStr(<<"llama3.2">>)},
     created_at : {Timestamp},
     updated_at : {Timestamp},
     message_count : {PyInt("0")},
     last_message : {Missing, PyNone}]

\* result['message'] of the send response
MessageDicts ==
    [id : {PyInt("7")},
     role : {PyStr(<<"user">>), PyStr(<<"assistant">>)},
     content : {PyStr(<<"hi">>)},
     timestamp : {Timestamp}]

CreateAnswers ==
    { Answer("response", d) : d \in ConversationDicts }
    \cup { Answer("raised", t) : t \in TransportFailureTypes }

SendAnswers ==
    { Answer("response", d) : d \in MessageDicts }
    \cup { Answer("raised", t) : t \in TransportFailureTypes }

\* ChatService.create_and_send_message: create_conversation (lines 59-68),
\* then send_message(conversation.uuid, content) (lines 125-132).
CreateAndSendMessage ==
    /\ svc_call = "none"
    /\ svc_call' = "create_and_send_message"
    /\ \E created \in CreateAnswers, sent \in SendAnswers,
          system_prompt \in {PyNone, PyStr(<<"be brief">>)} :
         LET create == Request("post", <<"/api/v2/chat/conversations">>,
                               [title |-> PyStr(<<"hello">>),
                                model |-> PyStr(<<"llama3.2">>),
                                system_prompt |-> IfGiven(system_prompt)])
             conversation == ChatConversationFromDict(created.value)
             uuid == GetAttr(conversation, "uuid")
             send == Request("post",
                             <<"/api/v2/chat/conversations/">> \o uuid.repr
                                 \o <<"/messages">>,
                             [content |-> PyStr(<<"hi">>)])
             message == ChatMessageFromDict(sent.value)
         IN  /\ svc_args' = [title |-> PyStr(<<"hello">>),
                             content |-> PyStr(<<"hi">>),
                             system_prompt |-> system_prompt]
             /\ svc_env' = [created |-> created, sent |-> sent]
             /\ CASE created.kind = "raised" ->
                       /\ svc_reqs' = <<create>>
                       /\ svc_out' = Failed(created.value)
                  [] created.kind # "raised" /\ conversation.kind = "raised" ->
                       /\ svc_reqs' = <<create>>
                       /\ svc_out' = Outcome("raised", conversation.type,
                                             conversation.fields.args)
                  [] created.kind # "raised" /\ conversation.kind # "raised"
                       /\ IsRaise(uuid) ->
                       /\ svc_reqs' = <<create>>
                       /\ svc_out' = Outcome("raised", uuid.type, uuid)
                  [] OTHER ->
                       /\ svc_reqs' = <<create, send>>
                       /\ svc_out' =
                            IF sent.kind = "raised" THEN Failed(sent.value)
                            ELSE IF message.kind = "raised"
                            THEN Outcome("raised", message.type, message.fields.args)
                            ELSE Outcome("returned", "tuple", <<conversation, message>>)
    /\ ResourceFrame

\* The body of a success response to a DELETE: none at all (as 204 has it),
\* a JSON object with or without a success entry, or another JSON value.
DeleteBody(kind, success) == [kind |-> kind, success |-> success]

DeleteBodies ==
    { DeleteBody("empty", Missing), DeleteBody("other", Missing) }
    \cup { DeleteBody("object", v) :
             v \in {Missing, PyBool(TRUE), PyBool(FALSE), PyNone} }

SuccessStatuses == {s \in Statuses : IsSuccess(s)}

DeleteAnswers ==
    { Answer("response", [status_code |-> st, body |-> b]) :
        st \in SuccessStatuses, b \in DeleteBodies }
    \cup { Answer("raised", t) : t \in TransportFailureTypes }

\* data = response.json(); return data.get('success', False)
DeleteReturn(resp) ==
    CASE resp.body.kind = "empty" ->
            Outcome("raised", "JSONDecodeError",
                    PyStr(<<"Expecting value: line 1 column 1 (char 0)">>))
      [] resp.body.kind = "other" ->
            Outcome("raised", "AttributeError", Raises("AttributeError", "get"))
      [] OTHER ->
            LET v == Get(resp.body, "success", PyBool(FALSE))
            IN  Outcome("returned", v.type, v)

DeleteEndpoints ==
    [delete |-> "/api/v2/jobs/",
     delete_node |-> "/api/v2/vfs/nodes/",
     delete_conversation |-> "/api/v2/chat/conversations/",
     delete_webhook |-> "/api/v2/webhooks/",
     delete_api_key |-> "/api/v2/account/api-keys/"]

\* The five delete accessors, which differ in the endpoint only:
\* response = self.client.delete(endpoint), then DeleteReturn.
Delete(call) ==
    /\ svc_call = "none"
    /\ svc_call' = call
    /\ \E id \in {"1", "2"}, answer \in DeleteAnswers :
         /\ svc_args' = [id |-> id]
         /\ svc_env' = [answer |-> answer]
         /\ svc_reqs' = <<Request("delete", <<DeleteEndpoints[call], id>>, Missing)>>
         /\ svc_out' = IF answer.kind = "raised" THEN Failed(answer.value)
                       ELSE DeleteReturn(answer.value)
    /\ ResourceFrame

JobsDelete == Delete("delete")
DeleteNode == Delete("delete_node")
DeleteConversation == Delete("delete_conversation")
WebhooksDelete == Delete("delete_webhook")
DeleteApiKey == Delete("delete_api_key")

\* A filesystem path is a str, here the sequence of its components
\* ("dir/a.txt" is <<"dir", "a.txt">>); an open byte stream is an object
\* with the name it was opened under.
Paths == {PyStr(<<"a.txt">>), PyStr(<<"dir", "a.txt">>), PyStr(<<"gone.txt">>)}

Streams == {Val("stream", <<"b.bin">>)}

\* The files on disk and their bytes; Missing where there is no such file.
FileBytes(path) ==
    IF path = PyStr(<<"gone.txt">>) THEN Missing
    ELSE Val("bytes", <<"bytes of ">> \o path.repr)

\* os.path.basename(path)
Basename(path) == PyStr(<<path.repr[Len(path.repr)]>>)

\* f.name of f = open(path, 'rb'): the path as open was given it.
NameOfOpened(path) == path

IsRaiseOf(v) == v.type = "FileNotFoundError"

\* An entry of the files dict handed to the transport: the pair
\* (filename, content), or the caller's stream itself.
Named(name, content) ==
    [type |-> "tuple", name |-> name, content |-> content]

AsIs(stream) == [type |-> "object", name |-> Missing, content |-> stream]

\* isinstance(file, str): open(file, 'rb'), then (f.name, f.read());
\* otherwise the object itself.  Raises(...) where open fails.
AttachmentOf(file) ==
    IF file.type = "str"
    THEN IF FileBytes(file) = Missing
         THEN Raises("FileNotFoundError", "No such file or directory")
         ELSE Named(NameOfOpened(file), FileBytes(file))
    ELSE AsIs(file)

\* The entries f'{prefix}_{i}' of file_data for a list of files.
FileData(prefix, items) ==
    [i \in DOMAIN items |->
        [key |-> <<prefix, i - 1>>, file |-> items[i],
         value |-> AttachmentOf(items[i])]]

FileLists ==
    UNION { [1 .. n -> Paths \cup Streams] : n \in 0 .. MaxFiles }

AudioLists == {<<>>} \cup { <<f>> : f \in Paths \cup Streams }

\* str(options)
StrOf(v) == PyStr(<<"str(">> \o v.repr \o <<")">>)

\* data['job'] and data['node'] of the response to an upload
UploadedJob ==
    [id |-> PyStr(<<"job-1">>), job_id |-> Missing,
     tool_id |-> PyStr(<<"tool-1">>), tool |-> Missing,
     status |-> PyStr(<<"pending">>), created_at |-> Timestamp,
     updated_at |-> Missing, completed_at |-> Missing, progress |-> Missing,
     error |-> Missing, inputs |-> Missing, input_files |-> Missing,
     outputs |-> Missing, output_files |-> Missing, options |-> Missing]

UploadAnswers(d) ==
    { Answer("response", d) }
    \cup { Answer("raised", t) : t \in TransportFailureTypes }

\* What an upload comes to once file_data is prepared: the first failure of
\* open, or one POST with the attachments and what from_dict makes of the
\* answer.
Upload(endpoint, file_data, form_data, answer, record) ==
    IF \E i \in DOMAIN file_data : IsRaiseOf(file_data[i].value)
    THEN LET i == CHOOSE i \in DOMAIN file_data :
                      /\ IsRaiseOf(file_data[i].value)
                      /\ \A j \in 1 .. i - 1 : ~IsRaiseOf(file_data[j].value)
         IN  /\ svc_reqs' = <<>>
             /\ svc_out' = Outcome("raised", file_data[i].value.type,
                                   file_data[i].value)
    ELSE /\ svc_reqs' = <<Request("post", endpoint,
                                  [files |-> file_data, data |-> form_data])>>
         /\ svc_out' = IF answer.kind = "raised" THEN Failed(answer.value)
                       ELSE IF record.kind = "raised"
                       THEN Outcome("raised", record.type, record.fields.args)
                       ELSE Outcome("returned", record.type, <<record>>)

\* ToolsService.execute and ToolsService.batch_execute, which differ in the
\* endpoint only.
ExecuteTool(call, last) ==
    /\ svc_call = "none"
    /\ svc_call' = call
    /\ \E file_list \in FileLists, audio_files \in AudioLists,
          options \in {PyNone, PyDict(<<>>), PyDict(<<"quality">>)},
          answer \in UploadAnswers(UploadedJob) :
         /\ svc_args' = [files |-> file_list, audio_files |-> audio_files,
                         options |-> options]
         /\ svc_env' = [answer |-> answer]
         /\ Upload(<<"/api/v2/tools/", "tool-1", last>>,
                   FileData("file", file_list) \o FileData("audio", audio_files),
                   [options |-> IF Truthy(options) THEN StrOf(options)
                                ELSE Missing],
                   answer, JobFromDict(answer.value))
    /\ ResourceFrame

Execute == ExecuteTool("execute", "/execute")

BatchExecute == ExecuteTool("batch_execute", "/batch")

\* VFSService.upload_file
UploadFile ==
    /\ svc_call = "none"
    /\ svc_call' = "upload_file"
    /\ \E file \in Paths \cup Streams, parent_id \in ParentArguments,
          encrypt \in BOOLEAN,
          answer \in UploadAnswers(NodeDict("node-9", "file", PyNone)) :
         /\ svc_args' = [files |-> <<file>>, parent_id |-> parent_id,
                         encrypt |-> encrypt]
         /\ svc_env' = [answer |-> answer]
         /\ Upload(<<"/api/v2/vfs/upload">>,
                   <<[key |-> <<"file">>, file |-> file,
                      value |-> AttachmentOf(file)]>>,
                   [encrypt |-> PyStr(<<IF encrypt THEN "true" ELSE "false">>),
                    parent_id |-> IfGiven(parent_id)],
                   answer, VFSNodeFromDict(answer.value))
    /\ ResourceFrame

ResourcesInit ==
    /\ retry_attempts = DefaultRetryAttempts
    /\ TransportIdle
    /\ JobsIdle
    /\ ServicesIdle

ResourcesNext ==
    \/ ListNodes
    \/ DownloadResults
    \/ DownloadFile
    \/ CreateAndSendMessage
    \/ JobsDelete
    \/ DeleteNode
    \/ DeleteConversation
    \/ WebhooksDelete
    \/ DeleteApiKey
    \/ Execute
    \/ BatchExecute
    \/ UploadFile

ResourcesSpec == ResourcesInit /\ [][ResourcesNext]_vars

----------------------------------------------------------------------------
(* Properties of the resource accessors *)

Listed == svc_call = "list_nodes" /\ svc_out.kind = "returned"

\* Each node returned is the node of the response at its place, a root
\* (parent_id None) exactly when the response gave it a null parent_id or
\* none.
RootsAreRoots ==
    /\ Len(svc_out.value) = Len(svc_env.nodes)
    /\ \A i \in DOMAIN svc_out.value :
         /\ svc_out.value[i].fields.id = svc_env.nodes[i].id
         /\ svc_out.value[i].fields.parent_id = PyNone
                <=> svc_env.nodes[i].parent_id \in {Missing, PyNone}

OnlyChildrenOfArgument ==
    \A i \in DOMAIN svc_out.value :
        svc_out.value[i].fields.parent_id = svc_args.parent_id

\* C21: a VFSNode with parent_id null is a root node, and list_nodes called
\* with a given parent_id (any value but None) returns only nodes whose
\* parent_id equals that value exactly.
C21_ListsOnlyChildren ==
    Listed =>
        /\ RootsAreRoots
        /\ svc_args.parent_id # PyNone => OnlyChildrenOfArgument

\* C21 as the code has it: the parent_id reaches the server, and only its
\* children come back, when it is a non-empty string; an empty one is
\* dropped from the query like None.
C21_ListsOnlyChildrenOfNonEmpty ==
    Listed =>
        /\ RootsAreRoots
        /\ Truthy(svc_args.parent_id) =>
              /\ svc_reqs[1].payload.parent_id = svc_args.parent_id
              /\ OnlyChildrenOfArgument
        /\ ~Truthy(svc_args.parent_id) => svc_reqs[1].payload.parent_id = Missing

C21_Witness ==
    /\ Listed
    /\ svc_args.parent_id = PyStr(<<"folder-A">>)
    /\ Len(svc_out.value) = 2
    /\ \E i \in DOMAIN svc_env.store :
         svc_env.store[i].parent_id = PyStr(<<"folder-B">>)

C21_WitnessRoot ==
    /\ Listed
    /\ svc_args.parent_id = PyNone
    /\ \E i \in DOMAIN svc_out.value :
         /\ svc_env.nodes[i].parent_id = PyNone
         /\ svc_out.value[i].fields.parent_id = PyNone

Downloading == svc_call \in {"download_results", "download_file"}

\* C22: download_results and download_file each issue one streamed GET to
\* the download endpoint and, the transport answering with the content,
\* return it as bytes when no output_path is given, otherwise write it to
\* output_path and return that path.
C22_DownloadStreamsOnce ==
    Downloading =>
        /\ Len(svc_reqs) = 1
        /\ svc_reqs[1] = Request("get", DownloadEndpoint(svc_call, svc_args.id),
                                 [stream |-> TRUE])
        /\ svc_out.kind = "returned"
        /\ IF svc_args.output_path = PyNone
           THEN svc_out = Outcome("returned", "bytes", Val("bytes", svc_env.content))
           ELSE /\ svc_out.value = svc_args.output_path
                /\ svc_env.written = Val("file", svc_env.content)

\* What the code does instead: no request goes out, TypeError is raised.
DownloadRaisesTypeError ==
    Downloading =>
        /\ svc_reqs = <<>>
        /\ svc_out = UnexpectedKeyword("stream")

CreatedAndSent ==
    /\ svc_call = "create_and_send_message"
    /\ svc_env.created.kind = "response"
    /\ svc_env.sent.kind = "response"

\* The identifiers the create response gave the new conversation.
IdentifiersOfCreated ==
    {svc_env.created.value.id.repr, svc_env.created.value.uuid.repr}

\* C23: when the create request and the send request both succeed,
\* create_and_send_message returns the pair (ChatConversation, ChatMessage)
\* without raising, having issued the create request, then the send request
\* to the conversation just created.
C23_CreatesThenSends ==
    CreatedAndSent =>
        /\ svc_out.kind = "returned"
        /\ svc_out.type = "tuple"
        /\ Len(svc_reqs) = 2
        /\ svc_reqs[1].endpoint = <<"/api/v2/chat/conversations">>
        /\ Len(svc_reqs[2].endpoint) = 3
        /\ svc_reqs[2].endpoint[2] \in
              { r[1] : r \in {x \in IdentifiersOfCreated : x # <<>>} }
        /\ svc_reqs[2].endpoint[3] = "/messages"

\* What the code does instead: the create request goes out, then the read
\* of conversation.uuid raises AttributeError and nothing is sent.
CreatedButNeverSent ==
    CreatedAndSent =>
        /\ Len(svc_reqs) = 1
        /\ svc_out = Outcome("raised", "AttributeError",
                             Raises("AttributeError", "uuid"))

DeleteAnswered ==
    /\ svc_call \in DOMAIN DeleteEndpoints
    /\ svc_env.answer.kind = "response"

\* A success response as the transport describes it: 200 or 201, or 204
\* with no body.
SuccessAsDescribed ==
    svc_env.answer.value.status_code = 204
        => svc_env.answer.value.body.kind = "empty"

\* C24: whenever the transport returns a success response for the DELETE
\* request (status 200, 201, or 204 with no body), the delete accessor
\* returns True and does not raise.
C24_DeleteReturnsTrue ==
    (DeleteAnswered /\ SuccessAsDescribed) =>
        svc_out = Outcome("returned", "bool", PyBool(TRUE))

\* The same for the 204 responses alone: a 204 has no body.
DeleteOnNoContentReturnsTrue ==
    (DeleteAnswered /\ svc_env.answer.value.status_code = 204
        /\ svc_env.answer.value.body.kind = "empty") =>
        svc_out = Outcome("returned", "bool", PyBool(TRUE))

\* What the code does: True only for a JSON object whose success entry is
\* true.
DeleteReturnsSuccessEntry ==
    DeleteAnswered =>
        (svc_out = Outcome("returned", "bool", PyBool(TRUE))
            <=> svc_env.answer.value.body = DeleteBody("object", PyBool(TRUE)))

----------------------------------------------------------------------------
(* Properties of the transport's attempt budget *)

\* Every attempt so far met a 5xx response, a timeout or a connection error.
OnlyRetryableSoFar ==
    AllSent(LAMBDA x : Is5xx(x) \/ IsNetworkFailure(x))

LastSent == requests_sent[Len(requests_sent)]

\* One counter for both kinds of failure: at most retry_attempts + 1
\* requests, and after the failed attempt number n a sleep of 2^n seconds.
OneBudget ==
    /\ Len(requests_sent) <= retry_attempts + 1
    /\ sleeps = ExpectedBackoff(Len(sleeps))
    /\ pc = "loop" => Len(sleeps) = Len(requests_sent)
    /\ pc = "raised" => Len(sleeps) = Len(requests_sent) - 1

\* The first two parts of C25 alone.
OneBudgetForBothKinds == OnlyRetryableSoFar => OneBudget

\* C25: 5xx responses and network-level failures share one attempt counter:
\* whatever mix of them a call meets, it sends at most retry_attempts + 1
\* requests, sleeps 2^n seconds after the failed attempt number n, and on
\* exhaustion raises by the kind of the last attempt alone: ServerError
\* after a 5xx, the generic ZetsubouError after a network failure.
C25_SharedAttemptCounter ==
    OnlyRetryableSoFar =>
        /\ OneBudget
        /\ pc # "returned"
        /\ pc = "raised" =>
              /\ Len(requests_sent) = retry_attempts + 1
              /\ Is5xx(LastSent) => raised.type = "ServerError"
              /\ IsNetworkFailure(LastSent) => raised.type = "ZetsubouError"

----------------------------------------------------------------------------
(* Properties of the polling loop's timeout *)

\* C26: the timeout is enforced by elapsed wall-clock time, checked before
\* each iteration: no fetch starts once the time elapsed since the call
\* began is >= timeout, however long the fetches and sleeps before it took,
\* and the timeout failure is raised only when that much time has elapsed.
\* (That the number of fetches is not fixed by timeout / poll_interval is
\* what C26_Witness and C26_WitnessManyFetches show.)
C26_NoFetchStartsAfterTimeout ==
    /\ [][fetches' > fetches => now - start_time < timeout]_vars
    /\ [](jpc = "get" => now - start_time < timeout)
    /\ [](IsTimeoutFailure(jraised) => now - start_time >= timeout)

\* One slow fetch used up a timeout of 3 with poll_interval 1: the call timed
\* out after a single fetch.
C26_Witness ==
    /\ jpc = "raised"
    /\ IsTimeoutFailure(jraised)
    /\ timeout = 3
    /\ poll_interval = 1
    /\ fetches = 1
    /\ job_sleeps = 1

\* The same arguments, with fetches that take no time: three fetches.
C26_WitnessManyFetches ==
    /\ jpc = "raised"
    /\ IsTimeoutFailure(jraised)
    /\ timeout = 3
    /\ poll_interval = 1
    /\ fetches = 3

Uploaded ==
    /\ svc_call \in {"execute", "batch_execute", "upload_file"}
    /\ svc_reqs # <<>>

Attachments == svc_reqs[1].payload.files

\* C27: an upload operation hands each file to the transport as a named
\* attachment: a path is read fully into memory and paired with its base
\* filename (the last path component, not the path as given), an open
\* stream is handed over as is.
C27_PathsGoAsBasenameAndBytes ==
    Uploaded =>
        \A i \in DOMAIN Attachments :
            IF Attachments[i].file.type = "str"
            THEN Attachments[i].value =
                    Named(Basename(Attachments[i].file),
                          FileBytes(Attachments[i].file))
            ELSE Attachments[i].value = AsIs(Attachments[i].file)

\* What the code does instead: the filename is the path as given.
PathsGoUnderTheirPath ==
    Uploaded =>
        \A i \in DOMAIN Attachments :
            IF Attachments[i].file.type = "str"
            THEN Attachments[i].value =
                    Named(Attachments[i].file, FileBytes(Attachments[i].file))
            ELSE Attachments[i].value = AsIs(Attachments[i].file)

----------------------------------------------------------------------------
(* Properties of the command line's API key *)

MainStarted == cli_pc # "start"

KeyGiven == cli_args.api_key_arg \/ cli_args.api_key_env

\* main went on to construct the client with the key: the session is there,
\* or the constructor's failure was reported.
ClientAttempted ==
    \/ session # "none"
    \/ cli_printed = <<Lit("Error initializing client: {e}")>>

KeyRequired ==
    /\ cli_pc = "exited"
    /\ cli_exit # <<>> /\ cli_exit # <<0>>
    /\ cli_printed = <<Lit("Error: API key required.")>>
    /\ session = "none"

\* C28: however the tool is started (console script or module run as a
\* script), the API key is taken from --api-key or, the flag absent, from
\* ZETSUBOU_API_KEY; with neither set the tool prints an error and exits
\* non-zero without constructing a client.
C28_KeyFromFlagOrEnvironment ==
    MainStarted =>
        /\ KeyGiven => ClientAttempted
        /\ ~KeyGiven => KeyRequired

\* The same for the starts that import os (the module run as __main__), and
\* for the starts with --api-key.
KeyFromFlagOrEnvironmentWithOs ==
    (MainStarted /\ (cli_args.os_imported \/ cli_args.api_key_arg)) =>
        /\ KeyGiven => ClientAttempted
        /\ ~KeyGiven => KeyRequired

----------------------------------------------------------------------------
(* Several threads calling _make_request on one client *)

Threads == {"thread-1", "thread-2"}

\* What an attempt of a call meets: a response, or an exception out of
\* session.request (kind is "response", "Timeout", "ConnectionError" or
\* "Exception").
Met(kind, resp) == [kind |-> kind, resp |-> resp]

SharedResponses ==
    { [status_code |-> st, body |-> b, retry_after |-> <<>>] :
        st \in {404, 500},
        b \in {x \in Bodies : x.kind \in {"json_object", "json_other"}
                              /\ ~x.has_message} }
    \cup { [status_code |-> 200,
            body |-> [kind |-> "json_object", has_message |-> FALSE,
                      empty |-> FALSE],
            retry_after |-> <<>>] }

Meets ==
    { Met("response", r) : r \in SharedResponses }
    \cup { Met(k, NoResponse) : k \in {"Timeout", "Exception"} }

\* The locals of one call of _make_request, with what it sent and met.
\* pc is "idle", "loop" (at line 101), "waiting" (inside session.request),
\* "returned" or "raised".
IdleCall ==
    [pc |-> "idle", files |-> FALSE, headers |-> NoHeaders, attempt |-> 0,
     last_exception |-> <<>>, sleeps |-> <<>>, wire |-> <<>>, met |-> <<>>,
     response |-> NoResponse, raised |-> NoExc]

\* Lines 94-97: the headers argument, a new dict made from session.headers.
HeadersFor(defaults, f) ==
    IF f
    THEN [k \in {n \in DOMAIN defaults : Lower(n) # "content-type"} |-> defaults[k]]
    ELSE NoHeaders

\* Lines 91-101.
Started(defaults, f) ==
    [IdleCall EXCEPT !.pc = "loop", !.files = f,
                     !.headers = HeadersFor(defaults, f)]

\* Lines 103-113: session.request is called with the call's own headers.
Sending(c, defaults) ==
    [c EXCEPT !.pc = "waiting",
              !.wire = Append(@, PrepareBody(MergeSetting(c.headers, defaults),
                                             c.files))]

\* time.sleep(2 ** attempt); continue
CallSleeps(c) ==
    [c EXCEPT !.pc = "loop", !.sleeps = Append(@, Backoff(c.attempt)),
              !.attempt = @ + 1]

CallRaises(c, exc) == [c EXCEPT !.pc = "raised", !.raised = exc]

\* Lines 162-167.
CallUnexpected(c, err, r) ==
    IF ShouldRetry(c.attempt, r)
    THEN CallSleeps([c EXCEPT !.last_exception = <<err>>])
    ELSE CallRaises([c EXCEPT !.last_exception = <<err>>],
                    Exc("ZetsubouError",
                        Text("Unexpected error: {e}", <<>>, <<err>>),
                        EmptyDict, <<>>))

\* Lines 116-167: what the call does with what its attempt met, r being
\* self.retry_attempts.
Received(c, m, r) ==
    LET d == [c EXCEPT !.met = Append(@, m)]
        st == Classify(m.resp, c.attempt, r)
    IN  CASE m.kind = "response" /\ st.act = "return" ->
                [d EXCEPT !.pc = "returned", !.response = m.resp]
          [] m.kind = "response" /\ st.act = "raise" ->
                CallRaises([d EXCEPT !.response = m.resp], st.exc)
          [] m.kind = "response" /\ st.act = "retry" -> CallSleeps(d)
          [] m.kind = "response" /\ st.act = "error" ->
                CallUnexpected(d, st.err, r)
          [] m.kind \in {"Timeout", "ConnectionError"} ->
                IF ShouldRetry(c.attempt, r)
                THEN CallSleeps([d EXCEPT !.last_exception = <<Lit(m.kind)>>])
                ELSE CallRaises(
                         [d EXCEPT !.last_exception = <<Lit(m.kind)>>],
                         Exc("ZetsubouError",
                             Text("Request failed after {retry_attempts} retries: {e}",
                                  <<r>>, <<Lit(m.kind)>>),
                             EmptyDict, <<>>))
          [] OTHER -> CallUnexpected(d, Lit("Exception"), r)

\* Line 170.
Exhausted(c, r) ==
    CallRaises(c, Exc("ZetsubouError",
                      Text("Request failed after {retry_attempts} retries: {e}",
                           <<r>>,
                           <<IF c.last_exception = <<>> THEN Lit("None")
                             ELSE c.last_exception[1]>>),
                      EmptyDict, <<>>))

AttemptSeenShared(t) ==
    CHOOSE a \in {calls[u].attempt : u \in Threads} :
        \A u \in Threads : calls[u].attempt <= a

\* Line 101: attempt is a local of the call.
AttemptSeen(t) == calls[t].attempt

\* The calls write neither the client's attributes nor session.headers, and
\* leave the rest of the model alone.
SharedFrame ==
    /\ UNCHANGED <<config, session_headers>>
    /\ UNCHANGED <<retry_attempts, tvars, jvars, mvars, evars, gvars, avars,
                   cvars, bvars, rvars>>

MakeRequestBy(t) ==
    /\ calls[t].pc = "idle"
    /\ \E f \in BOOLEAN :
         calls' = [calls EXCEPT ![t] = Started(session_headers, f)]
    /\ SharedFrame

SendBy(t) ==
    /\ calls[t].pc = "loop"
    /\ AttemptSeen(t) < config.retry_attempts + 1
    /\ calls' = [calls EXCEPT ![t] = Sending(calls[t], session_headers)]
    /\ SharedFrame

ReceiveBy(t) ==
    /\ calls[t].pc = "waiting"
    /\ \E m \in Meets :
         calls' = [calls EXCEPT ![t] =
                      Received([calls[t] EXCEPT !.attempt = AttemptSeen(t)], m,
                               config.retry_attempts)]
    /\ SharedFrame

ExhaustedBy(t) ==
    /\ calls[t].pc = "loop"
    /\ ~(AttemptSeen(t) < config.retry_attempts + 1)
    /\ calls' = [calls EXCEPT ![t] = Exhausted(calls[t], config.retry_attempts)]
    /\ SharedFrame

ThreadCalls == \E t \in Threads : MakeRequestBy(t)
ThreadSends == \E t \in Threads : SendBy(t)
ThreadReceives == \E t \in Threads : ReceiveBy(t)
ThreadExhausts == \E t \in Threads : ExhaustedBy(t)

\* ZetsubouClient(api_key, retry_attempts=r), then one call per thread.
SharedInit ==
    /\ retry_attempts = DefaultRetryAttempts
    /\ TransportIdle
    /\ JobsIdle
    /\ ModelsIdle
    /\ EnvelopeIdle
    /\ GraphQLIdle
    /\ AccessorsIdle
    /\ CliIdle
    /\ BlockIdle
    /\ ResourcesIdle
    /\ config \in { [api_key |-> "api_key", base_url |-> "https://zetsubou.life",
                     timeout |-> 30, retry_attempts |-> r] :
                       r \in -1 .. MaxSharedRetries }
    /\ session_headers = SessionHeaders
    /\ calls = [t \in Threads |-> IdleCall]

SharedNext ==
    \/ ThreadCalls
    \/ ThreadSends
    \/ ThreadReceives
    \/ ThreadExhausts

SharedSpec == SharedInit /\ [][SharedNext]_vars

----------------------------------------------------------------------------
(* Properties of the shared client *)

\* A call made alone on a fresh client that meets the outcomes in met, one
\* per attempt.
RECURSIVE Replay(_, _, _)
Replay(c, met, r) ==
    IF met = <<>> THEN c
    ELSE Replay(Received(Sending(c, SessionHeaders), Head(met), r), Tail(met), r)

\* The call c is where a call made alone would be after the same outcomes.
AsIfAlone(c, r) ==
    LET alone == Replay(Started(SessionHeaders, c.files), c.met, r)
    IN  CASE c.pc = "waiting" -> c = Sending(alone, SessionHeaders)
          [] c.pc = "raised" /\ alone.pc = "loop" -> c = Exhausted(alone, r)
          [] OTHER -> c = alone

\* C29: calls of _make_request made by several threads on one client do not
\* interfere: each keeps its own attempt counter, so it sends at most
\* retry_attempts + 1 requests and comes to what its own responses alone
\* determine; and no call, with or without attachments, changes the
\* client's api_key, base_url, timeout, retry_attempts or the session's
\* default headers.
C29_CallsDoNotInterfere ==
    /\ [](\A t \in Threads :
            calls[t].pc # "idle" =>
                /\ Len(calls[t].wire) <= config.retry_attempts + 1
                /\ AsIfAlone(calls[t], config.retry_attempts))
    /\ [][config' = config /\ session_headers' = session_headers]_vars

\* Both calls are inside session.request at once, one on its first attempt
\* without attachments, the other on its second with attachments.
C29_Witness ==
    /\ calls["thread-1"].pc = "waiting"
    /\ calls["thread-1"].attempt = 0
    /\ ~calls["thread-1"].files
    /\ calls["thread-2"].pc = "waiting"
    /\ calls["thread-2"].attempt = 1
    /\ calls["thread-2"].files

\* One call ended by a ServerError after two requests while the other
\* returned after one.
C29_WitnessEnded ==
    /\ calls["thread-1"].pc = "raised"
    /\ calls["thread-1"].raised.type = "ServerError"
    /\ Len(calls["thread-1"].wire) = 2
    /\ calls["thread-2"].pc = "returned"
    /\ Len(calls["thread-2"].wire) = 1

----------------------------------------------------------------------------
(* Properties of the transport's handling of unexpected exceptions *)

ZetsubouFamily ==
    {"ZetsubouError", "ValidationError", "AuthenticationError",
     "NotFoundError", "RateLimitError", "ServerError"}

IsUnexpectedText(t) == t.fmt = "Unexpected error: {e}"

\* The attempt number i met an exception of one of the kinds and was
\* treated as transient: while the budget lasted the call slept 2^(i-1)
\* seconds and went on; on the last attempt it raised the generic
\* ZetsubouError with the exception's text.
TreatedAsTransient(kinds) ==
    \A i \in DOMAIN requests_sent :
        requests_sent[i].kind \in kinds =>
            IF i <= retry_attempts
            THEN /\ Len(sleeps) >= i
                 /\ sleeps[i] = 2 ^ (i - 1)
                 /\ i = Len(requests_sent) => pc = "loop"
            ELSE /\ i = Len(requests_sent)
                 /\ pc = "raised"
                 /\ raised.type = "ZetsubouError"
                 /\ IsUnexpectedText(raised.message)
                 /\ EmbedsText(raised.message, Lit(requests_sent[i].kind))

\* An exception raised while a response is classified is under the same
\* budget: a response that is not a 5xx and was followed by another attempt
\* was followed by the backoff of its attempt, and a call that ends by the
\* failure for unexpected exceptions used up the budget and embeds the last
\* exception.
ClassificationErrorsTransient ==
    /\ \A i \in DOMAIN requests_sent :
         (i < Len(requests_sent) /\ IsResponse(requests_sent[i])
          /\ ~Is5xx(requests_sent[i])) =>
            /\ i <= retry_attempts
            /\ sleeps[i] = 2 ^ (i - 1)
    /\ (pc = "raised" /\ IsUnexpectedText(raised.message)) =>
            /\ raised.type = "ZetsubouError"
            /\ Len(requests_sent) = retry_attempts + 1
            /\ sleeps = ExpectedBackoff(retry_attempts)
            /\ last_exception # <<>>
            /\ EmbedsText(raised.message, last_exception[1])

EndsBySuccessOrFailure ==
    /\ Len(requests_sent) <= retry_attempts + 1
    /\ sleeps = ExpectedBackoff(Len(sleeps))
    /\ pc = "returned" => IsSuccess(response.status_code) /\ raised = NoExc
    /\ pc = "raised" => raised # NoExc

\* C30: any exception raised during an attempt other than the SDK's own
\* failures, timeouts and connection errors is treated as transient
\* (retried under the same budget and 2^attempt backoff, surfaced as the
\* generic ZetsubouError if it persists through the last attempt), so the
\* loop lets no exception escape that is not a ZetsubouError and ends only
\* by a success response or a raised failure.
C30_UnexpectedIsTransient ==
    /\ TreatedAsTransient({"Exception", "KeyboardInterrupt"})
    /\ ClassificationErrorsTransient
    /\ EndsBySuccessOrFailure
    /\ pc = "raised" => raised.type \in ZetsubouFamily

\* C30 for what except Exception takes: exceptions deriving from Exception
\* are treated as transient; KeyboardInterrupt (a BaseException) ends the
\* call at once and leaves it unchanged, and nothing else that is not a
\* ZetsubouError escapes.
C30_ExceptionsAreTransient ==
    /\ TreatedAsTransient({"Exception"})
    /\ ClassificationErrorsTransient
    /\ EndsBySuccessOrFailure
    /\ \A i \in DOMAIN requests_sent :
         requests_sent[i].kind = "KeyboardInterrupt" =>
            /\ i = Len(requests_sent)
            /\ pc = "raised"
            /\ raised = Interrupt
    /\ (pc = "raised" /\ raised.type \notin ZetsubouFamily) =>
            /\ raised = Interrupt
            /\ LastSent.kind = "KeyboardInterrupt"

\* Three attempts met an unexpected exception: two backoffs, then the
\* generic failure.
C30_Witness ==
    /\ retry_attempts = 2
    /\ pc = "raised"
    /\ AllSent(LAMBDA x : x.kind = "Exception")
    /\ Len(requests_sent) = 3
    /\ sleeps = <<1, 2>>
    /\ raised.type = "ZetsubouError"
    /\ IsUnexpectedText(raised.message)

C30_WitnessInterrupted ==
    /\ pc = "raised"
    /\ raised = Interrupt
    /\ Len(requests_sent) = 2
    /\ requests_sent[1].kind = "Exception"

====
